---- MODULE Spec2Model ----
(***************************************************************************)
(* Constant resolution of resolver/resolver.cc: the parallel pre-walk      *)
(* (ResolveConstantsWalk), the driver's merge and sort, the serial         *)
(* fixed-point loop over the four TODO lists and the failure path.         *)
(***************************************************************************)
EXTENDS Integers, Sequences, FiniteSets, Bags, TLC

VARIABLES
    prog,               \* the input: parameters of the parsed program and its files
    fileq,              \* ConcurrentBoundedQueue<ParsedFile> fileq
    wk,                 \* per worker: position and its ResolveConstantsWalk state
    resultq,            \* BlockingBoundedQueue<ResolveWalkResult> resultq
    popped,             \* trees counted by the driver's drain loop
    trees,              \* vector<ParsedFile> trees of resolveConstants
    todo,               \* vector<ResolutionItem> todo
    todoAncestors,      \* vector<AncestorResolutionItem> todoAncestors
    todoClassAliases,   \* vector<ClassAliasResolutionItem> todoClassAliases
    todoTypeAliases,    \* vector<TypeAliasResolutionItem> todoTypeAliases
    lits,               \* the constant nodes of the trees (node kind, symbol, resolutionScope)
    patched,            \* nullary T.type_alias sends that were given a synthetic argument
    superClass,         \* Symbol::superClass of every class symbol
    mixins,             \* Symbol::mixins() of every class symbol
    resultType,         \* Symbol::resultType of every static field / type alias
    sealedSubclasses,   \* subclasses recorded on sealed classes
    errors,             \* the errors begun on the error queue, in order
    pc,                 \* position of the driver in resolveConstants
    idx,                \* position of remove_if / the failure loops in the current list
    kept,               \* the jobs remove_if has kept so far in the current list
    origSize,           \* int origSize of the current block
    progress,           \* bool progress
    first,              \* bool first
    iters,              \* iterations of the while loop begun so far
    enforceFailed,      \* the ENFORCEs that did not hold (a debug build stops there)
    hist,               \* bookkeeping for the properties (not program state)
    entry,              \* the entry point of Resolver that was called
    poolSize,           \* size of the WorkerPool handed to resolveConstants
    rpc,                \* position of the entry point in its sequence of calls
    passes,             \* the calls the entry point has completed, in order
    decls,              \* the assignments the type-parameter walk visits, in order
    memberType,         \* LambdaParam bounds of every type member
    tpos,               \* assignments ResolveTypeParamsWalk has visited
    body,               \* the tree the signatures walk visits, and its file's flags
    sw,                 \* the ResolveSignaturesWalk object and its position in the tree
    methods,            \* the method symbols, in the order they were entered
    fields,             \* the field and static-field symbols, in the order entered
    mixSends,           \* the sends the mixes_in_class_methods walk visits, in order
    classMethods,       \* the member classMethods of every class symbol
    mpos                \* sends ResolveMixesInClassMethodsWalk has visited

vars == <<prog, fileq, wk, resultq, popped, trees, todo, todoAncestors,
          todoClassAliases, todoTypeAliases, lits, patched, superClass, mixins,
          resultType, sealedSubclasses, errors, pc, idx, kept, origSize,
          progress, first, iters, enforceFailed, hist, entry, poolSize, rpc, passes,
          decls, memberType, tpos, body, sw, methods, fields, mixSends, classMethods,
          mpos>>

(***************************************************************************)
(* Bounds                                                                  *)
(***************************************************************************)
MaxWorkers == 2
\* the longest constant chain n1::n2::n3 of the programs
MaxChain == 3
\* the most sigs in front of one method definition
MaxSigs == 3

Workers == 1..MaxWorkers

(***************************************************************************)
(* Sequencing.  Then(e, k) is k of the value of e.  TLC evaluates an        *)
(* operator's argument again at each of its uses when it evaluates          *)
(* ENABLED; a bound variable is evaluated once.                             *)
(***************************************************************************)
Then(e, k(_)) == CHOOSE v \in {k(r) : r \in {e}} : TRUE

(***************************************************************************)
(* Symbols.  The symbol table is entered by the namer before this pass:    *)
(* two classes A and B, a module M, a type alias X declared inside A, a    *)
(* type alias Y and a static field P declared at the top level.  In some   *)
(* programs X or Y is assigned a plain constant and is a class alias, Y is *)
(* a type alias of the payload (it has its type before the pass and no     *)
(* file assigns it), or B is a class whose superclass the table already    *)
(* holds.                                                                  *)
(***************************************************************************)
NoSymbol == "noSymbol"
Root == "root"
Todo == "todo"
Untyped == "untyped"
StubModule == "StubModule"
StubSuperClass == "StubSuperClass"
StubMixin == "StubMixin"

Stubs == {StubModule, StubSuperClass, StubMixin}
\* A::M is the module nested in class A in the programs that declare one
NestedM == "A::M"
\* the singleton class of A, which an extend in the body of A gives a mixin
SingletonA == "<Class:A>"
UserClasses == {"A", "B", "M", NestedM, SingletonA}
StaticFields == {"X", "Y", "P"}
ClassSymbols == UserClasses \cup {Root, Todo, Untyped} \cup Stubs
Symbols == ClassSymbols \cup StaticFields

exists(sym) == sym # NoSymbol

isClass(sym) == sym \in ClassSymbols

isTypeAlias(sym) == sym \in {"X", "Y"} \ prog.classAliases

isStaticField(sym) == sym \in StaticFields

isModule(sym) == sym \in {"M", NestedM, StubModule, StubMixin}

isClassSealed(sym) == sym = "B"

isSingletonClass(sym) == sym = SingletonA

lookupSingletonClass(sym) == IF sym = "A" THEN SingletonA ELSE NoSymbol

owner(sym) == IF sym \in {"X", NestedM, SingletonA} THEN "A" ELSE Root

\* findMember: the direct members of a symbol, by name
findMember(sym, name) ==
    CASE sym = Root /\ name \in {"A", "B", "M", "P", "Y"} -> name
      [] sym = "A" /\ name = "X" -> "X"
      [] sym = "A" /\ name = "M" /\ prog.nestedM -> NestedM
      [] OTHER -> NoSymbol

\* typeMembers() is non-empty for class A exactly in the programs that make A generic
hasTypeMembers(sym) == sym = "A" /\ prog.genericA

\* enclosingClass: the symbol itself when it is a class, else its owner's
enclosingClass(sym) == IF isClass(sym) THEN sym ELSE owner(sym)

\* Symbol::loc() of the static fields: the left-hand side that declares them
symbolLoc(sym) ==
    CASE sym = "X" -> [file |-> 1, begin |-> 30, end |-> 31]
      [] sym = "P" -> [file |-> 2, begin |-> 30, end |-> 31]
      [] sym = "Y" -> [file |-> 2, begin |-> 50, end |-> 51]
      [] OTHER -> [file |-> 0, begin |-> 0, end |-> 0]

(***************************************************************************)
(* The parsed program.  Two files:                                         *)
(*   file 1:  class A < supA; include mixA; X = T.type_alias(rhsX); end    *)
(*   file 2:  class B < supB; ref; end                                     *)
(*            module M; end                                                *)
(*            P = rhsP                                                     *)
(*            Y = T.type_alias(rhsY)                                       *)
(* Each of supA, mixA, rhsX, supB, ref, rhsP, rhsY is an expression:       *)
(* a constant chain n1::n2, a chain under a non-constant scope (dyn), the  *)
(* placeholder ConstantLit(todo) of a class without superclass, self, no   *)
(* expression at all, or (for a type alias) a send without arguments.      *)
(***************************************************************************)
Expr(kind, names, synth) == [kind |-> kind, names |-> names, synth |-> synth]

TodoLit == Expr("todo", <<>>, FALSE)
NoExpr == Expr("none", <<>>, FALSE)
SelfRef == Expr("self", <<>>, FALSE)
Nullary == Expr("nullary", <<>>, FALSE)
Const(names) == Expr("const", names, FALSE)
\* a chain synthesized by a rewriter: every component carries the same loc
Synth(names) == Expr("const", names, TRUE)
\* Bar under a scope that is not a constant, as in foo::Bar
Dyn(names) == Expr("dyn", names, FALSE)

FileIds == {1, 2}
Slots == 1..7
\* the nodes: MaxChain per slot, then the left-hand sides of X, P and Y
LhsX == 7 * MaxChain + 1
LhsP == 7 * MaxChain + 2
LhsY == 7 * MaxChain + 3
LhsLits == {LhsX, LhsP, LhsY}
LitIds == 1..LhsY

SlotExpr(s) ==
    CASE s = 1 -> prog.supA
      [] s = 2 -> prog.mixA
      [] s = 3 -> prog.rhsX
      [] s = 4 -> prog.supB
      [] s = 5 -> prog.ref
      [] s = 6 -> prog.rhsP
      [] s = 7 -> prog.rhsY

SlotFile(s) == IF s <= 3 THEN 1 ELSE 2

SlotBegin(s) ==
    CASE s \in {1, 4} -> 10
      [] s \in {2, 5} -> 20
      [] s \in {3, 6} -> 40
      [] s = 7 -> 60

SlotOf(id) == (id + MaxChain - 1) \div MaxChain

CompOf(id) == id - MaxChain * (SlotOf(id) - 1)

\* the node at the top of the expression of slot s
TopLit(s) ==
    LET top(e) == IF e.kind \in {"const", "dyn"} THEN MaxChain * (s - 1) + Len(e.names)
                  ELSE IF e.kind \in {"todo", "self"} THEN MaxChain * (s - 1) + 1
                  ELSE 0
    IN  top(SlotExpr(s))

Loc(file, begin, end) == [file |-> file, begin |-> begin, end |-> end]

\* The static part of a constant node: the name and scope of its
\* UnresolvedConstantLit (original), and its loc.
\* scope: 0 is EmptyTree, a positive number is the node of the scope constant,
\* -1 is an expression that is not a constant.
LitInfo(id) ==
    IF id \in LhsLits
    THEN [present |-> ~(id = LhsY /\ prog.payloadY), hasOriginal |-> TRUE, scope |-> 0,
          cnst |-> CASE id = LhsX -> "X" [] id = LhsP -> "P" [] id = LhsY -> "Y",
          loc |-> CASE id = LhsX -> Loc(1, 30, 31)
                    [] id = LhsP -> Loc(2, 30, 31)
                    [] id = LhsY -> Loc(2, 50, 51)]
    ELSE LET info(s, k, e, b) ==
                 CASE e.kind \in {"const", "dyn"} /\ k <= Len(e.names) ->
                        [present |-> TRUE, hasOriginal |-> TRUE,
                         scope |-> IF k > 1 THEN id - 1
                                   ELSE IF e.kind = "dyn" THEN -1 ELSE 0,
                         cnst |-> e.names[k],
                         loc |-> Loc(SlotFile(s), b, IF e.synth THEN b + 9 ELSE b + k)]
                   [] e.kind = "todo" /\ k = 1 ->
                        [present |-> TRUE, hasOriginal |-> FALSE, scope |-> 0,
                         cnst |-> "", loc |-> Loc(SlotFile(s), b, b)]
                   [] e.kind = "self" /\ k = 1 ->
                        [present |-> TRUE, hasOriginal |-> TRUE, scope |-> -1,
                         cnst |-> IF s = 2 THEN "A" ELSE "B",
                         loc |-> Loc(SlotFile(s), b, b + 4)]
                   [] OTHER ->
                        [present |-> FALSE, hasOriginal |-> FALSE, scope |-> 0,
                         cnst |-> "", loc |-> Loc(SlotFile(s), b, b)]
         IN  info(SlotOf(id), CompOf(id), SlotExpr(SlotOf(id)), SlotBegin(SlotOf(id)))

Lit(node, symbol) == [node |-> node, symbol |-> symbol, resolutionScope |-> NoSymbol]

\* The trees as the namer leaves them: textual constants are
\* UnresolvedConstantLit, the left-hand side of an assignment is a ConstantLit
\* bound to its static field, a missing superclass is ConstantLit(todo).
InitLit(id) ==
    IF id \in LhsLits
    THEN IF LitInfo(id).present THEN Lit("ConstantLit", LitInfo(id).cnst)
         ELSE Lit("EmptyTree", NoSymbol)
    ELSE LET init(e, c) ==
                 CASE ~c.present -> Lit("EmptyTree", NoSymbol)
                   [] e.kind = "todo" -> Lit("ConstantLit", Todo)
                   [] e.kind = "self" -> Lit("Self", NoSymbol)
                   [] OTHER -> Lit("UnresolvedConstantLit", NoSymbol)
         IN  init(SlotExpr(SlotOf(id)), LitInfo(id))

\* The statements of a file in the order TreeMap::apply calls the walk:
\* preTransformClassDef, the body, postTransformClassDef.  The ancestors of a
\* ClassDef are not walked by TreeMap.
Pre(sym) == [ev |-> "preClassDef", symbol |-> sym]
Post(sym, kind, ancestors) ==
    [ev |-> "postClassDef", symbol |-> sym, kind |-> kind, ancestors |-> ancestors,
     singletonAncestors |-> <<>>]

\* the ClassDef of A: class A < supA with include mixA or extend mixA, or
\* module A with include supA and include mixA or extend mixA
ClassDefA ==
    [Post("A", prog.kindA,
          (IF prog.kindA = "Module" /\ prog.supA.kind = "todo" THEN <<>> ELSE <<1>>)
              \o (IF prog.extendsA THEN <<>> ELSE <<2>>))
        EXCEPT !.singletonAncestors = IF prog.extendsA THEN <<2>> ELSE <<>>]
Ucl(s) == [ev |-> "constant", slot |-> s]
Assign(lhs, s) == [ev |-> "assign", lhs |-> lhs, slot |-> s]

FileEvents(f) ==
    IF f = 1
    THEN << Pre(Root), Pre("A"), Ucl(3), Assign(LhsX, 3),
            ClassDefA, Post(Root, "Class", <<>>) >>
    ELSE << Pre(Root), Pre("B"), Ucl(5), Post("B", "Class", <<4>>),
            Pre("M"), Post("M", "Module", <<>>),
            Ucl(6), Assign(LhsP, 6) >>
         \o (IF prog.payloadY THEN <<>> ELSE << Ucl(7), Assign(LhsY, 7) >>)
         \o << Post(Root, "Class", <<>>) >>

\* the right-hand side of the assignment to a type alias is T.type_alias(...)
IsTypeAliasSend(lhs) == lhs \in LhsLits /\ isTypeAlias(LitInfo(lhs).cnst)

(***************************************************************************)
(* The mutable state the job functions read and write: the trees'          *)
(* constant nodes, the symbol table and the error queue.                   *)
(***************************************************************************)
GS == [lits |-> lits, patched |-> patched, superClass |-> superClass,
       mixins |-> mixins, resultType |-> resultType,
       sealedSubclasses |-> sealedSubclasses, errors |-> errors,
       enforceFailed |-> enforceFailed]

\* ENFORCE(cond)
ENFORCE(g, cond, name) ==
    IF cond THEN g ELSE [g EXCEPT !.enforceFailed = @ \cup {name}]

\* Types: resultType is null until set
NullType == <<"null">>
UntypedType == <<"untyped">>
AliasType(sym) == <<"alias", sym>>
ParsedType(sym) == <<"type", sym>>

\* ctx.state.beginError(loc, code) with an addErrorLine(line, ...)
beginErrorLine(g, loc, code, what, line) ==
    [g EXCEPT !.errors = Append(@, [code |-> code, loc |-> loc, what |-> what,
                                    line |-> line])]

\* ctx.state.beginError(loc, code)
beginError(g, loc, code, what) == beginErrorLine(g, loc, code, what, loc)

(***************************************************************************)
(* Symbol-table services the pass calls                                    *)
(***************************************************************************)
\* Symbol::dealias: follow AliasType result types to a symbol that is no alias
RECURSIVE dealiasFrom(_, _, _)
dealiasFrom(g, sym, seen) ==
    IF sym \in StaticFields /\ g.resultType[sym][1] = "alias"
    THEN IF sym \in seen THEN StubModule
         ELSE dealiasFrom(g, g.resultType[sym][2], seen \cup {sym})
    ELSE sym

dealias(g, sym) == dealiasFrom(g, sym, {})

\* the class symbols reachable from sym through superClass and mixins,
\* sym's direct ancestors included and sym itself only through a cycle
RECURSIVE Ancestry(_, _, _)
Ancestry(g, frontier, seen) ==
    LET grow(new) == IF new = {} THEN seen ELSE Ancestry(g, new, seen \cup new)
    IN  Then(UNION { (IF exists(g.superClass[c]) THEN {g.superClass[c]} ELSE {})
                     \cup { g.mixins[c][i] : i \in 1..Len(g.mixins[c]) }
                     : c \in frontier \cap ClassSymbols } \ seen,
             grow)

\* Symbol::derivesFrom
derivesFrom(g, sym, klass) == klass \in Ancestry(g, {sym}, {})

\* Symbol::findMemberTransitive: the symbol's own members, then its mixins
\* (last included first), then its superclass
RECURSIVE findMemberTransitiveFrom(_, _, _, _)
RECURSIVE findInMixins(_, _, _, _, _)
findInMixins(g, sym, name, i, seen) ==
    IF i = 0 THEN NoSymbol
    ELSE LET found(r) == IF exists(r) THEN r ELSE findInMixins(g, sym, name, i - 1, seen)
         IN  Then(findMemberTransitiveFrom(g, g.mixins[sym][i], name, seen), found)

findMemberTransitiveFrom(g, sym, name, seen) ==
    IF sym \in seen \/ sym \notin ClassSymbols THEN NoSymbol
    ELSE LET found(viaMixin) ==
                 IF exists(findMember(sym, name)) THEN findMember(sym, name)
                 ELSE IF exists(viaMixin) THEN viaMixin
                 ELSE IF exists(g.superClass[sym])
                      THEN findMemberTransitiveFrom(g, g.superClass[sym], name,
                                                    seen \cup {sym})
                      ELSE NoSymbol
         IN  Then(findInMixins(g, sym, name, Len(g.mixins[sym]), seen \cup {sym}), found)

findMemberTransitive(g, sym, name) == findMemberTransitiveFrom(g, sym, name, {})

\* Symbol::recordSealedSubclass
recordSealedSubclass(g, sealed, klass) ==
    [g EXCEPT !.sealedSubclasses[sealed] = @ \cup {klass}]

\* TypeSyntax::getResultType on the right-hand side of a type alias: the type
\* named by the constant the expression is bound to (rhs = 0: T.untyped)
getResultType(g, rhs) ==
    IF rhs = 0 THEN UntypedType ELSE ParsedType(g.lits[rhs].symbol)

(***************************************************************************)
(* ResolveConstantsWalk: the resolution primitive and the four jobs        *)
(***************************************************************************)
RECURSIVE resolveLhsFrom(_, _)
resolveLhsFrom(nesting, name) ==
    IF nesting = <<>> THEN NoSymbol
    ELSE LET found(lookup) ==
                 IF exists(lookup) THEN lookup ELSE resolveLhsFrom(Tail(nesting), name)
         IN  found(findMember(Head(nesting), name))

\* a lookup that asks the innermost scope and its ancestors before the outer
\* scopes
resolveLhsInheritedFirst(g, nesting, name) ==
    LET found(lookup) ==
            IF exists(lookup) THEN lookup ELSE resolveLhsFrom(nesting, name)
    IN  Then(findMemberTransitive(g, Head(nesting), name), found)

\* nesting: the scopes of the Nesting chain, innermost first
resolveLhs(g, nesting, name) ==
    LET found(lookup) ==
            IF exists(lookup) THEN lookup
            ELSE findMemberTransitive(g, Head(nesting), name)
    IN  Then(resolveLhsFrom(nesting, name), found)

isAlreadyResolved(g, id) ==
    LET resolvedSym(sym) ==
            IF ~exists(sym) THEN FALSE
            ELSE IF isTypeAlias(sym) THEN g.resultType[sym] # NullType
            ELSE TRUE
    IN  resolvedSym(g.lits[id].symbol)

\* ResolutionChecker over the expression whose top constant is rhs
isFullyResolved(g, rhs) == rhs = 0 \/ isAlreadyResolved(g, rhs)

\* resolveConstant(ctx, nesting, c) for the original of node id;
\* the result symbol and the state with the errors it began
resolveConstant(g, nesting, id) ==
    LET scoped(c, sym) ==
            IF exists(sym) /\ isTypeAlias(sym)
            THEN [symbol |-> Untyped,
                  g |-> beginError(g, c.loc, "ConstantInTypeAlias", c.cnst)]
            ELSE IF ~exists(sym)
            THEN [symbol |-> NoSymbol, g |-> g]
            ELSE [symbol |-> findMember(dealias(g, sym), c.cnst), g |-> g]
        constant(c) ==
            IF c.scope = 0
            THEN [symbol |-> resolveLhs(g, nesting, c.cnst), g |-> g]
            ELSE IF c.scope > 0
            THEN scoped(c, g.lits[c.scope].symbol)
            ELSE [symbol |-> Untyped, g |-> beginError(g, c.loc, "DynamicConstant", c.cnst)]
    IN  Then(LitInfo(id), constant)

setSymbol(g, id, sym) == [g EXCEPT !.lits[id].symbol = sym]

\* a constant job that reports the constant each time it gives up
resolveJobReporting(g, job) ==
    IF isAlreadyResolved(g, job.out)
    THEN [ok |-> TRUE, g |-> g]
    ELSE LET bind(r) ==
                 IF ~exists(r.symbol)
                 THEN [ok |-> FALSE,
                       g |-> beginError(r.g, LitInfo(job.out).loc, "StubConstant",
                                        LitInfo(job.out).cnst)]
                 ELSE IF isTypeAlias(r.symbol)
                 THEN IF r.g.resultType[r.symbol] # NullType
                      THEN [ok |-> TRUE, g |-> setSymbol(r.g, job.out, r.symbol)]
                      ELSE [ok |-> FALSE, g |-> r.g]
                 ELSE [ok |-> TRUE, g |-> setSymbol(r.g, job.out, r.symbol)]
         IN  Then(resolveConstant(g, job.scope, job.out), bind)

\* a constant job that binds a type alias without looking at its resultType
resolveJobUnpopulated(g, job) ==
    IF isAlreadyResolved(g, job.out)
    THEN [ok |-> TRUE, g |-> g]
    ELSE LET bind(r) ==
                 IF ~exists(r.symbol)
                 THEN [ok |-> FALSE, g |-> r.g]
                 ELSE [ok |-> TRUE, g |-> setSymbol(r.g, job.out, r.symbol)]
         IN  Then(resolveConstant(g, job.scope, job.out), bind)

resolveJob(g, job) ==
    IF isAlreadyResolved(g, job.out)
    THEN [ok |-> TRUE, g |-> g]
    ELSE LET bind(r) ==
                 IF ~exists(r.symbol)
                 THEN [ok |-> FALSE, g |-> r.g]
                 ELSE IF isTypeAlias(r.symbol)
                 THEN IF r.g.resultType[r.symbol] # NullType
                      THEN [ok |-> TRUE, g |-> setSymbol(r.g, job.out, r.symbol)]
                      ELSE [ok |-> FALSE, g |-> r.g]
                 ELSE [ok |-> TRUE, g |-> setSymbol(r.g, job.out, r.symbol)]
         IN  Then(resolveConstant(g, job.scope, job.out), bind)

\* a faulty constantResolutionFailed: it reports the constant and leaves the
\* node without a symbol
constantResolutionFailedUnbound(g, job) ==
    beginError(g, LitInfo(job.out).loc, "StubConstant", LitInfo(job.out).cnst)

\* a constantResolutionFailed that reports every constant it stubs
constantResolutionFailedReportAll(g, job) ==
    [beginError(g, LitInfo(job.out).loc, "StubConstant", LitInfo(job.out).cnst)
        EXCEPT !.lits[job.out].symbol = StubModule]

constantResolutionFailed(g, job) ==
    LET stub(c, g0, scope) ==
            [(IF scope # StubModule \/ c.cnst = "Subclasses"
              THEN beginError(g0, c.loc, "StubConstant", c.cnst)
              ELSE g0)
                EXCEPT !.lits[job.out].symbol = StubModule,
                       !.lits[job.out].resolutionScope =
                           IF scope = StubModule THEN NoSymbol ELSE scope]
        failed(c, r) ==
            IF exists(r.symbol) /\ isTypeAlias(r.symbol)
            THEN setSymbol(IF r.g.resultType[r.symbol] = NullType
                           THEN [beginErrorLine(r.g, symbolLoc(r.symbol),
                                                "RecursiveTypeAlias", r.symbol, c.loc)
                                    EXCEPT !.resultType[r.symbol] = UntypedType]
                           ELSE r.g,
                           job.out, r.symbol)
            ELSE stub(c, ENFORCE(r.g, ~exists(r.symbol), "constantResolutionFailed"),
                      IF exists(r.g.lits[job.out].symbol)
                      THEN dealias(r.g, r.g.lits[job.out].symbol)
                      ELSE IF c.scope > 0
                      THEN dealias(r.g, r.g.lits[c.scope].symbol)
                      ELSE Head(job.scope))
        resolved(r) == Then(LitInfo(job.out), LAMBDA c : failed(c, r))
    IN  Then(resolveConstant(g, job.scope, job.out), resolved)

RECURSIVE enclosingTypeMember(_)
enclosingTypeMember(klass) ==
    IF klass = Root THEN FALSE
    ELSE IF hasTypeMembers(klass) THEN TRUE
    ELSE enclosingTypeMember(enclosingClass(owner(klass)))

\* a type-alias job that waits for the right-hand side before it looks at the
\* enclosing class
resolveTypeAliasJobWaiting(g, job) ==
    IF ~isFullyResolved(g, job.rhs)
    THEN [ok |-> FALSE, g |-> g]
    ELSE IF enclosingTypeMember(enclosingClass(job.lhs))
    THEN [ok |-> TRUE,
          g |-> [beginError(g, job.loc, "TypeAliasInGenericClass", job.lhs)
                    EXCEPT !.resultType[job.lhs] = UntypedType]]
    ELSE [ok |-> TRUE, g |-> [g EXCEPT !.resultType[job.lhs] = getResultType(g, job.rhs)]]

\* a type-alias job that parses the right-hand side without asking whether
\* it is resolved
resolveTypeAliasJobEager(g, job) ==
    IF enclosingTypeMember(enclosingClass(job.lhs))
    THEN [ok |-> TRUE,
          g |-> [beginError(g, job.loc, "TypeAliasInGenericClass", job.lhs)
                    EXCEPT !.resultType[job.lhs] = UntypedType]]
    ELSE [ok |-> TRUE, g |-> [g EXCEPT !.resultType[job.lhs] = getResultType(g, job.rhs)]]

\* job: lhs the alias symbol, rhs the top constant of the argument (0: the
\* synthetic T.untyped), loc the argument's loc
resolveTypeAliasJob(g, job) ==
    IF enclosingTypeMember(enclosingClass(job.lhs))
    THEN [ok |-> TRUE,
          g |-> [beginError(g, job.loc, "TypeAliasInGenericClass", job.lhs)
                    EXCEPT !.resultType[job.lhs] = UntypedType]]
    ELSE IF isFullyResolved(g, job.rhs)
    THEN [ok |-> TRUE, g |-> [g EXCEPT !.resultType[job.lhs] = getResultType(g, job.rhs)]]
    ELSE [ok |-> FALSE, g |-> g]

\* a class-alias job that does not look where the right-hand side leads
resolveClassAliasJobUnchecked(g, it) ==
    LET alias(rhsSym) ==
            IF ~exists(rhsSym) THEN [ok |-> FALSE, g |-> g]
            ELSE IF isTypeAlias(rhsSym)
            THEN [ok |-> TRUE,
                  g |-> [beginError(g, LitInfo(it.rhs).loc, "ReassignsTypeAlias", it.lhs)
                            EXCEPT !.resultType[it.lhs] = UntypedType]]
            ELSE [ok |-> TRUE, g |-> [g EXCEPT !.resultType[it.lhs] = AliasType(rhsSym)]]
    IN  alias(g.lits[it.rhs].symbol)

resolveClassAliasJob(g, it) ==
    LET alias(rhsSym) ==
            IF ~exists(rhsSym) THEN [ok |-> FALSE, g |-> g]
            ELSE IF isTypeAlias(rhsSym)
            THEN [ok |-> TRUE,
                  g |-> [beginError(g, LitInfo(it.rhs).loc, "ReassignsTypeAlias", it.lhs)
                            EXCEPT !.resultType[it.lhs] = UntypedType]]
            ELSE IF dealias(g, rhsSym) # it.lhs
            THEN [ok |-> TRUE, g |-> [g EXCEPT !.resultType[it.lhs] = AliasType(rhsSym)]]
            ELSE [ok |-> TRUE,
                  g |-> [beginError(g, symbolLoc(it.lhs), "RecursiveClassAlias", it.lhs)
                            EXCEPT !.resultType[it.lhs] = UntypedType]]
    IN  alias(g.lits[it.rhs].symbol)

\* one stub for both kinds of ancestor
stubSymbolForAncestorSuper(item) == StubSuperClass

stubSymbolForAncestor(item) ==
    IF item.isSuperclass THEN StubSuperClass ELSE StubMixin

\* a write of the superclass that replaces the superclass the class has
attachAncestorOverwrite(g, job, resolved) ==
    IF job.isSuperclass
    THEN IF resolved = Todo THEN g ELSE [g EXCEPT !.superClass[job.klass] = resolved]
    ELSE [g EXCEPT !.mixins[job.klass] = Append(@, resolved)]

\* an attach that assigns the superclass over the one the class has, and
\* appends every mixin twice
attachAncestorAgain(g, job, resolved) ==
    IF job.isSuperclass
    THEN IF resolved = Todo THEN g
         ELSE [g EXCEPT !.superClass[job.klass] = resolved]
    ELSE [g EXCEPT !.mixins[job.klass] = Append(Append(@, resolved), resolved)]

\* the tail of resolveAncestorJob: the write of the superclass or the mixin
attachAncestor(g, job, resolved) ==
    IF job.isSuperclass
    THEN IF resolved = Todo THEN g
         ELSE IF ~exists(g.superClass[job.klass])
                 \/ g.superClass[job.klass] = Todo
                 \/ g.superClass[job.klass] = resolved
         THEN [g EXCEPT !.superClass[job.klass] = resolved]
         ELSE beginError(g, LitInfo(job.ancestor).loc, "RedefinitionOfParents", job.klass)
    ELSE [g EXCEPT !.mixins[job.klass] = Append(@, resolved)]

\* a circularity check that only sees a class named as its own ancestor
checkCircularSelfOnly(g, job, resolved) ==
    IF resolved = job.klass
    THEN [resolved |-> stubSymbolForAncestor(job),
          g |-> beginError(g, LitInfo(job.ancestor).loc, "CircularDependency", job.klass)]
    ELSE [resolved |-> resolved, g |-> g]

\* the circularity check of resolveAncestorJob
checkCircular(g, job, resolved) ==
    IF resolved = job.klass \/ derivesFrom(g, resolved, job.klass)
    THEN [resolved |-> stubSymbolForAncestor(job),
          g |-> beginError(g, LitInfo(job.ancestor).loc, "CircularDependency", job.klass)]
    ELSE [resolved |-> resolved, g |-> g]

resolveAncestorJob(g, job, lastRun) ==
    LET attach(s3) == [ok |-> TRUE, g |-> attachAncestor(s3.g, job, s3.resolved)]
        classOnly(s1) ==
            IF ~isClass(s1.resolved) /\ ~lastRun THEN [ok |-> FALSE, g |-> g]
            ELSE IF ~isClass(s1.resolved)
            THEN Then(checkCircular(beginError(s1.g, LitInfo(job.ancestor).loc,
                                               "DynamicSuperclass", job.klass),
                                    job, stubSymbolForAncestor(job)),
                      attach)
            ELSE Then(checkCircular(s1.g, job, s1.resolved), attach)
        ancestor(ancestorSym) ==
            IF ~exists(ancestorSym) THEN [ok |-> FALSE, g |-> g]
            ELSE IF isTypeAlias(ancestorSym) /\ ~lastRun THEN [ok |-> FALSE, g |-> g]
            ELSE IF isTypeAlias(ancestorSym)
            THEN Then([resolved |-> stubSymbolForAncestor(job),
                       g |-> beginError(g, LitInfo(job.ancestor).loc,
                                        "DynamicSuperclass", job.klass)],
                      classOnly)
            ELSE Then([resolved |-> dealias(g, ancestorSym), g |-> g], classOnly)
    IN  ancestor(g.lits[job.ancestor].symbol)

tryRegisterSealedSubclass(g, job) ==
    LET register(ancestorSym) ==
            IF ~isClassSealed(ancestorSym) THEN g
            ELSE recordSealedSubclass(g, ancestorSym, job.klass)
    IN  Then(dealias(g, g.lits[job.ancestor].symbol), register)

(***************************************************************************)
(* The pre-walk.  w is the walker's state: nesting_ (innermost scope       *)
(* first) and its four TODO lists.                                         *)
(***************************************************************************)
NewWalk == [nesting_ |-> <<Root>>, todo_ |-> <<>>, todoAncestors_ |-> <<>>,
            todoClassAliases_ |-> <<>>, todoTypeAliases_ |-> <<>>]

preTransformClassDef(g, w, ev) ==
    [g |-> g, w |-> [w EXCEPT !.nesting_ = <<ev.symbol>> \o @]]

RECURSIVE postTransformUnresolvedConstantLit(_, _, _)
postTransformUnresolvedConstantLit(g, w, id) ==
    LET out(s1) ==
            LET resolve(job) ==
                    LET enqueue(r) ==
                            IF r.ok THEN [g |-> r.g, w |-> s1.w]
                            ELSE [g |-> r.g, w |-> [s1.w EXCEPT !.todo_ = Append(@, job)]]
                        emplaced(g1) == Then(resolveJob(g1, job), enqueue)
                    IN  Then([s1.g EXCEPT !.lits[id] = Lit("ConstantLit", NoSymbol)],
                             emplaced)
            IN  Then([scope |-> s1.w.nesting_, out |-> id], resolve)
        inner(scope) ==
            Then(IF scope > 0 /\ g.lits[scope].node = "UnresolvedConstantLit"
                 THEN postTransformUnresolvedConstantLit(g, w, scope)
                 ELSE [g |-> g, w |-> w],
                 out)
    IN  Then(LitInfo(id).scope, inner)

\* a transformAncestor that stays in the parent nesting it switched to for a
\* superclass
transformAncestorInParent(g, w, ctxOwner, klass, id, isSuperclass) ==
    LET job == [ancestor |-> id, klass |-> klass, isSuperclass |-> isSuperclass]
        enqueued(s1) == [s1.w EXCEPT !.todoAncestors_ = Append(@, job)]
        constantLit(s1, sym) ==
            IF exists(sym) /\ isTypeAlias(sym)
            THEN [g |-> beginError(s1.g, LitInfo(id).loc, "DynamicSuperclass", klass),
                  w |-> s1.w]
            ELSE IF isSuperclass /\ sym = Todo THEN s1
            ELSE [g |-> s1.g, w |-> enqueued(s1)]
        ancestor(s1, node) ==
            CASE node = "ConstantLit" -> constantLit(s1, s1.g.lits[id].symbol)
              [] node = "Self" ->
                   [g |-> [s1.g EXCEPT !.lits[id] = Lit("ConstantLit", enclosingClass(ctxOwner))],
                    w |-> enqueued(s1)]
              [] OTHER -> s1
        walked(s1) == ancestor(s1, IF id = 0 THEN "EmptyTree" ELSE s1.g.lits[id].node)
        restore(r) == r
    IN  Then(IF id > 0 /\ g.lits[id].node = "UnresolvedConstantLit"
             THEN Then(postTransformUnresolvedConstantLit(
                           g, [w EXCEPT !.nesting_ = IF isSuperclass THEN Tail(@) ELSE @],
                           id),
                       restore)
             ELSE [g |-> g, w |-> w],
             walked)

\* id: the node of the ancestor expression (0: EmptyTree); ctxOwner: the
\* owner of the ctx the walk passes
transformAncestor(g, w, ctxOwner, klass, id, isSuperclass) ==
    LET job == [ancestor |-> id, klass |-> klass, isSuperclass |-> isSuperclass]
        enqueued(s1) == [s1.w EXCEPT !.todoAncestors_ = Append(@, job)]
        constantLit(s1, sym) ==
            IF exists(sym) /\ isTypeAlias(sym)
            THEN [g |-> beginError(s1.g, LitInfo(id).loc, "DynamicSuperclass", klass),
                  w |-> s1.w]
            ELSE IF isSuperclass /\ sym = Todo THEN s1
            ELSE [g |-> s1.g, w |-> enqueued(s1)]
        ancestor(s1, node) ==
            CASE node = "ConstantLit" -> constantLit(s1, s1.g.lits[id].symbol)
              [] node = "Self" ->
                   [g |-> [s1.g EXCEPT !.lits[id] = Lit("ConstantLit", enclosingClass(ctxOwner))],
                    w |-> enqueued(s1)]
              [] OTHER -> s1
        walked(s1) == ancestor(s1, IF id = 0 THEN "EmptyTree" ELSE s1.g.lits[id].node)
        restore(r) == [g |-> r.g, w |-> [r.w EXCEPT !.nesting_ = w.nesting_]]
    IN  Then(IF id > 0 /\ g.lits[id].node = "UnresolvedConstantLit"
             THEN Then(postTransformUnresolvedConstantLit(
                           g, [w EXCEPT !.nesting_ = IF isSuperclass THEN Tail(@) ELSE @],
                           id),
                       restore)
             ELSE [g |-> g, w |-> w],
             walked)

\* the loop over original->ancestors
RECURSIVE transformAncestors(_, _, _, _, _)
transformAncestors(g, w, ev, i, n) ==
    IF i > n THEN [g |-> g, w |-> w]
    ELSE LET next(r) == transformAncestors(r.g, r.w, ev, i + 1, n)
             ancestor(id) ==
                 Then(transformAncestor(g, w, ev.symbol, ev.symbol, id,
                                        /\ ev.kind = "Class"
                                        /\ i = 1
                                        /\ ~isSingletonClass(ev.symbol)),
                      next)
         IN  Then(TopLit(ev.ancestors[i]), ancestor)

\* the loop over original->singletonAncestors
RECURSIVE transformSingletonAncestors(_, _, _, _, _)
transformSingletonAncestors(g, w, ev, i, n) ==
    IF i > n THEN [g |-> g, w |-> w]
    ELSE LET next(r) == transformSingletonAncestors(r.g, r.w, ev, i + 1, n)
             ancestor(id) ==
                 Then(transformAncestor(
                          ENFORCE(g, exists(lookupSingletonClass(ev.symbol)),
                                  "postTransformClassDef"),
                          w, ev.symbol, lookupSingletonClass(ev.symbol), id, FALSE),
                      next)
         IN  Then(TopLit(ev.singletonAncestors[i]), ancestor)

postTransformClassDef(g, w, ev) ==
    LET pop(r) == [g |-> r.g, w |-> [r.w EXCEPT !.nesting_ = Tail(@)]]
        singletons(r) ==
            transformSingletonAncestors(r.g, r.w, ev, 1, Len(ev.singletonAncestors))
    IN  Then(Then(transformAncestors(g, w, ev, 1, Len(ev.ancestors)), singletons), pop)

\* a walk that gives a type alias the untyped type on the spot
postTransformAssignTyped(g, w, ev) ==
    IF IsTypeAliasSend(ev.lhs)
    THEN [g |-> [g EXCEPT !.resultType[g.lits[ev.lhs].symbol] = UntypedType], w |-> w]
    ELSE [g |-> g, w |-> w]

\* a postTransformAssign that enters no ResolutionItem for the left-hand side
\* of a type alias
postTransformAssignNoLhsItem(g, w, ev) ==
    LET typeAlias(id, sym, rhs) ==
            [g |-> IF SlotExpr(ev.slot).kind = "nullary" /\ id \notin g.patched
                   THEN [beginError(g, Loc(SlotFile(ev.slot), SlotBegin(ev.slot),
                                           SlotBegin(ev.slot) + 9),
                                    "InvalidTypeAlias", sym)
                            EXCEPT !.patched = @ \cup {id}]
                   ELSE g,
             w |-> [w EXCEPT !.todoTypeAliases_ =
                                 Append(@, [lhs |-> sym, rhs |-> rhs,
                                            loc |-> IF rhs = 0 THEN LitInfo(id).loc
                                                    ELSE LitInfo(rhs).loc])]]
        assign(id, sym, rhs) ==
            IF g.lits[id].node # "ConstantLit" \/ ~isStaticField(sym) THEN [g |-> g, w |-> w]
            ELSE IF IsTypeAliasSend(id) THEN typeAlias(id, sym, rhs)
            ELSE IF rhs = 0 \/ g.lits[rhs].node # "ConstantLit" THEN [g |-> g, w |-> w]
            ELSE [g |-> g,
                  w |-> [w EXCEPT !.todoClassAliases_ = Append(@, [lhs |-> sym, rhs |-> rhs])]]
    IN  assign(ev.lhs, g.lits[ev.lhs].symbol, TopLit(ev.slot))

postTransformAssign(g, w, ev) ==
    LET typeAlias(id, sym, rhs) ==
            [g |-> IF SlotExpr(ev.slot).kind = "nullary" /\ id \notin g.patched
                   THEN [beginError(g, Loc(SlotFile(ev.slot), SlotBegin(ev.slot),
                                           SlotBegin(ev.slot) + 9),
                                    "InvalidTypeAlias", sym)
                            EXCEPT !.patched = @ \cup {id}]
                   ELSE g,
             w |-> [w EXCEPT !.todoTypeAliases_ =
                                 Append(@, [lhs |-> sym, rhs |-> rhs,
                                            loc |-> IF rhs = 0 THEN LitInfo(id).loc
                                                    ELSE LitInfo(rhs).loc]),
                             !.todo_ = Append(@, [scope |-> w.nesting_, out |-> id])]]
        assign(id, sym, rhs) ==
            IF g.lits[id].node # "ConstantLit" \/ ~isStaticField(sym) THEN [g |-> g, w |-> w]
            ELSE IF IsTypeAliasSend(id) THEN typeAlias(id, sym, rhs)
            ELSE IF rhs = 0 \/ g.lits[rhs].node # "ConstantLit" THEN [g |-> g, w |-> w]
            ELSE [g |-> g,
                  w |-> [w EXCEPT !.todoClassAliases_ = Append(@, [lhs |-> sym, rhs |-> rhs])]]
    IN  assign(ev.lhs, g.lits[ev.lhs].symbol, TopLit(ev.slot))

\* TreeMap::apply(ictx, constants, tree) on the statements evs of a file
RECURSIVE applyWalk(_, _, _)
applyWalk(g, w, evs) ==
    IF evs = <<>> THEN [g |-> g, w |-> w]
    ELSE LET next(r) == Then(Tail(evs), LAMBDA rest : applyWalk(r.g, r.w, rest))
             constant(id) ==
                 IF id > 0 /\ g.lits[id].node = "UnresolvedConstantLit"
                 THEN postTransformUnresolvedConstantLit(g, w, id)
                 ELSE [g |-> g, w |-> w]
             visit(ev) ==
                 Then(CASE ev.ev = "preClassDef" -> preTransformClassDef(g, w, ev)
                        [] ev.ev = "postClassDef" -> postTransformClassDef(g, w, ev)
                        [] ev.ev = "assign" -> postTransformAssign(g, w, ev)
                        [] ev.ev = "constant" -> Then(TopLit(ev.slot), constant),
                      next)
         IN  Then(Head(evs), visit)

(***************************************************************************)
(* Sorting                                                                 *)
(***************************************************************************)
locCompare(lhs, rhs) ==
    IF lhs.file < rhs.file THEN TRUE
    ELSE IF lhs.file > rhs.file THEN FALSE
    ELSE IF lhs.begin < rhs.begin THEN TRUE
    ELSE IF lhs.begin > rhs.begin THEN FALSE
    ELSE lhs.end < rhs.end

\* StrictLevel of a file: False is 1, True is 2
strictLevel(file) == prog.strict[file]

\* a comparison of locs that does not look at the strictness of the files
compareLocsUnranked(lhs, rhs) == locCompare(lhs, rhs)

compareLocs(lhs, rhs) ==
    LET compare(left, right) ==
            IF left # right THEN right < left
            ELSE IF lhs.file # rhs.file THEN lhs.file < rhs.file
            ELSE IF lhs.begin # rhs.begin THEN lhs.begin < rhs.begin
            ELSE lhs.end < rhs.end
    IN  compare(strictLevel(lhs.file), strictLevel(rhs.file))

RECURSIVE constantDepth(_, _)
constantDepth(g, id) ==
    LET depth(c) ==
            IF c.hasOriginal /\ c.scope > 0 /\ g.lits[c.scope].node = "ConstantLit"
            THEN 1 + constantDepth(g, c.scope)
            ELSE 0
    IN  depth(LitInfo(id))

\* the loc each list is sorted by: out->loc, ancestor->loc, rhs->loc, tree->loc
sortLoc(x) ==
    CASE "out" \in DOMAIN x -> LitInfo(x.out).loc
      [] "ancestor" \in DOMAIN x -> LitInfo(x.ancestor).loc
      [] "loc" \in DOMAIN x -> x.loc
      [] "rhs" \in DOMAIN x -> LitInfo(x.rhs).loc
      [] "file" \in DOMAIN x -> Loc(x.file, 0, 99)

sortDepth(g, x) ==
    CASE "out" \in DOMAIN x -> constantDepth(g, x.out)
      [] "ancestor" \in DOMAIN x -> constantDepth(g, x.ancestor)
      [] OTHER -> 0

\* the comparator of the sorts before the loop
lessBeforeLoop(g, lhs, rhs) == locCompare(sortLoc(lhs), sortLoc(rhs))

\* the comparator of the sorts of the failure path
lessOnFailure(g, lhs, rhs) ==
    LET compare(l, r) ==
            IF l = r THEN sortDepth(g, lhs) < sortDepth(g, rhs) ELSE compareLocs(l, r)
    IN  compare(sortLoc(lhs), sortLoc(rhs))

less(g, onFailure, lhs, rhs) ==
    IF onFailure THEN lessOnFailure(g, lhs, rhs) ELSE lessBeforeLoop(g, lhs, rhs)

\* fast_sort: a sort by the comparator; elements the comparator does not
\* order keep their order
RECURSIVE insertSorted(_, _, _, _, _)
insertSorted(g, onFailure, x, sorted, i) ==
    IF i > Len(sorted) THEN Append(sorted, x)
    ELSE IF less(g, onFailure, x, sorted[i])
         THEN SubSeq(sorted, 1, i - 1) \o <<x>> \o SubSeq(sorted, i, Len(sorted))
         ELSE insertSorted(g, onFailure, x, sorted, i + 1)

RECURSIVE sortFrom(_, _, _, _, _)
sortFrom(g, onFailure, seq, i, sorted) ==
    IF i > Len(seq) THEN sorted
    ELSE LET next(s) == sortFrom(g, onFailure, seq, i + 1, s)
         IN  Then(insertSorted(g, onFailure, seq[i], sorted, 1), next)

fast_sort(g, onFailure, seq) == sortFrom(g, onFailure, seq, 1, <<>>)

(***************************************************************************)
(* resolveConstants after the join, as steps of the driver.  S is the      *)
(* driver's state: its position, its local variables and the state the     *)
(* jobs work on.                                                           *)
(***************************************************************************)
Driver == [pc |-> pc, idx |-> idx, kept |-> kept, origSize |-> origSize,
           progress |-> progress, first |-> first, iters |-> iters,
           trees |-> trees, todo |-> todo, todoAncestors |-> todoAncestors,
           todoClassAliases |-> todoClassAliases,
           todoTypeAliases |-> todoTypeAliases, g |-> GS]

\* the entry of the loop without the five sorts
sortListsUnsorted(S) == [S EXCEPT !.progress = TRUE, !.first = TRUE, !.pc = "loop"]

\* the five fast_sort calls before the loop, and the loop's initial flags
sortLists(S) ==
    [S EXCEPT !.todo = fast_sort(S.g, FALSE, @),
              !.todoAncestors = fast_sort(S.g, FALSE, @),
              !.todoClassAliases = fast_sort(S.g, FALSE, @),
              !.todoTypeAliases = fast_sort(S.g, FALSE, @),
              !.trees = fast_sort(S.g, FALSE, @),
              !.progress = TRUE, !.first = TRUE, !.pc = "loop"]

\* a loop condition that does not run the first iteration for its own sake
loopConditionNoFirst(S) == S.progress /\ (S.todo # <<>> \/ S.todoAncestors # <<>>)

\* while (progress && (first || !todo.empty() || !todoAncestors.empty()))
loopCondition(S) == S.progress /\ (S.first \/ S.todo # <<>> \/ S.todoAncestors # <<>>)

loopTest(S) ==
    IF loopCondition(S)
    THEN [S EXCEPT !.first = FALSE, !.iters = @ + 1, !.pc = "ancestors", !.idx = 1,
                   !.kept = <<>>, !.origSize = Len(S.todoAncestors)]
    ELSE [S EXCEPT !.pc = "failSort"]

\* one call of the remove_if predicate: the job is dropped when it is resolved
removeIfStep(S, job, r) ==
    [S EXCEPT !.g = r.g, !.idx = @ + 1,
              !.kept = IF r.ok THEN @ ELSE Append(@, job)]

ancestorStep(S) ==
    LET job == S.todoAncestors[S.idx]
        register(r) ==
            removeIfStep(S, job,
                         IF r.ok THEN [ok |-> TRUE, g |-> tryRegisterSealedSubclass(r.g, job)]
                         ELSE r)
    IN  Then(resolveAncestorJob(S.g, job, FALSE), register)

ancestorsEnd(S) ==
    [S EXCEPT !.todoAncestors = S.kept, !.progress = (S.origSize # Len(S.kept)),
              !.pc = "constants", !.idx = 1, !.kept = <<>>, !.origSize = Len(S.todo)]

constantStep(S) ==
    LET remove(r) == removeIfStep(S, S.todo[S.idx], r)
    IN  Then(resolveJob(S.g, S.todo[S.idx]), remove)

constantsEnd(S) ==
    [S EXCEPT !.todo = S.kept, !.progress = @ \/ (S.origSize # Len(S.kept)),
              !.pc = "classAliases", !.idx = 1, !.kept = <<>>,
              !.origSize = Len(S.todoClassAliases)]

classAliasStep(S) ==
    LET remove(r) == removeIfStep(S, S.todoClassAliases[S.idx], r)
    IN  Then(resolveClassAliasJob(S.g, S.todoClassAliases[S.idx]), remove)

classAliasesEnd(S) ==
    [S EXCEPT !.todoClassAliases = S.kept, !.progress = @ \/ (S.origSize # Len(S.kept)),
              !.pc = "typeAliases", !.idx = 1, !.kept = <<>>,
              !.origSize = Len(S.todoTypeAliases)]

typeAliasStep(S) ==
    LET remove(r) == removeIfStep(S, S.todoTypeAliases[S.idx], r)
    IN  Then(resolveTypeAliasJob(S.g, S.todoTypeAliases[S.idx]), remove)

\* the end of an iteration that always reports progress
typeAliasesEndProgress(S) ==
    [S EXCEPT !.todoTypeAliases = S.kept, !.progress = TRUE,
              !.pc = "loop", !.idx = 0, !.kept = <<>>, !.origSize = 0]

typeAliasesEnd(S) ==
    [S EXCEPT !.todoTypeAliases = S.kept, !.progress = @ \/ (S.origSize # Len(S.kept)),
              !.pc = "loop", !.idx = 0, !.kept = <<>>, !.origSize = 0]

\* the two fast_sort calls of the failure path
failSort(S) ==
    [S EXCEPT !.todo = fast_sort(S.g, TRUE, @),
              !.todoAncestors = fast_sort(S.g, TRUE, @),
              !.pc = "failConstants", !.idx = 1]

failConstantStep(S) ==
    [S EXCEPT !.g = constantResolutionFailed(S.g, S.todo[S.idx]), !.idx = @ + 1]

failConstantsEnd(S) == [S EXCEPT !.pc = "failAncestors", !.idx = 1]

failAncestorStep(S) ==
    LET job == S.todoAncestors[S.idx]
        again(r1) == IF r1.ok THEN r1 ELSE resolveAncestorJob(r1.g, job, TRUE)
        enforce(r2) == [S EXCEPT !.g = ENFORCE(r2.g, r2.ok, "resolveAncestorJob"),
                                 !.idx = @ + 1]
    IN  Then(Then(resolveAncestorJob(S.g, job, TRUE), again), enforce)

failAncestorsEnd(S) == [S EXCEPT !.pc = "done", !.idx = 0]

\* the list the driver is working through at S.pc
currentList(S) ==
    CASE S.pc \in {"ancestors", "failAncestors"} -> S.todoAncestors
      [] S.pc \in {"constants", "failConstants"} -> S.todo
      [] S.pc = "classAliases" -> S.todoClassAliases
      [] S.pc = "typeAliases" -> S.todoTypeAliases
      [] OTHER -> <<>>

atJob(S) == S.idx >= 1 /\ S.idx <= Len(currentList(S))

\* the driver's next step from S
driverStep(S) ==
    CASE S.pc = "sort" -> sortLists(S)
      [] S.pc = "loop" -> loopTest(S)
      [] S.pc = "ancestors" -> IF atJob(S) THEN ancestorStep(S) ELSE ancestorsEnd(S)
      [] S.pc = "constants" -> IF atJob(S) THEN constantStep(S) ELSE constantsEnd(S)
      [] S.pc = "classAliases" -> IF atJob(S) THEN classAliasStep(S) ELSE classAliasesEnd(S)
      [] S.pc = "typeAliases" -> IF atJob(S) THEN typeAliasStep(S) ELSE typeAliasesEnd(S)
      [] S.pc = "failSort" -> failSort(S)
      [] S.pc = "failConstants" -> IF atJob(S) THEN failConstantStep(S) ELSE failConstantsEnd(S)
      [] S.pc = "failAncestors" -> IF atJob(S) THEN failAncestorStep(S) ELSE failAncestorsEnd(S)
      [] OTHER -> S

\* the driver's reference run: its steps from S to the return
RECURSIVE runToReturn(_)
runToReturn(S) == IF S.pc = "done" THEN S ELSE Then(driverStep(S), runToReturn)

(***************************************************************************)
(* The programs                                                            *)
(***************************************************************************)
Program(supA, mixA, rhsX, genericA, supB, ref, rhsP, rhsY, strict) ==
    [supA |-> supA, mixA |-> mixA, rhsX |-> rhsX, genericA |-> genericA,
     supB |-> supB, ref |-> ref, rhsP |-> rhsP, rhsY |-> rhsY, strict |-> strict,
     classAliases |-> {}, payloadY |-> FALSE, superB |-> Todo, nestedM |-> FALSE,
     kindA |-> "Class", extendsA |-> FALSE]

\* the program every family varies
Base == Program(TodoLit, NoExpr, Const(<<"B">>), FALSE, TodoLit, Const(<<"X">>),
                Const(<<"B">>), Const(<<"B">>), <<2, 2>>)

\* superclasses and mixins: plain, through the class alias P, through the type
\* alias X, unresolvable, and declared as parents of each other
AncestorPrograms ==
    { [Base EXCEPT !.supA = supA, !.mixA = mixA, !.supB = supB, !.rhsP = rhsP] :
        supA \in {TodoLit, Const(<<"B">>), Const(<<"P">>), Const(<<"X">>), Const(<<"Zz">>)},
        mixA \in {NoExpr, Const(<<"M">>), Const(<<"B">>), SelfRef},
        supB \in {TodoLit, Const(<<"A">>)},
        rhsP \in {Const(<<"B">>)} }
    \cup
    { [Base EXCEPT !.supA = Const(<<"P">>), !.rhsP = Const(<<"A">>)],
      [Base EXCEPT !.supA = Dyn(<<"B">>), !.supB = Const(<<"Zz">>)],
      [Base EXCEPT !.supA = Const(<<"A">>), !.mixA = Const(<<"M">>)] }

\* type aliases: resolvable, referring to themselves or to each other,
\* unresolvable, without argument, and inside a generic class
TypeAliasPrograms ==
    { [Base EXCEPT !.rhsX = rhsX, !.rhsY = rhsY, !.genericA = genericA,
                   !.ref = Const(<<"A", "X">>)] :
        rhsX \in {Const(<<"B">>), Const(<<"X">>), Const(<<"Y">>), Const(<<"Zz">>), Nullary},
        rhsY \in {Const(<<"B">>), Const(<<"Y">>), Const(<<"A", "X">>), Dyn(<<"B">>)},
        genericA \in BOOLEAN }

\* constants in a method body and class aliases, of classes, of themselves,
\* of unknown names and of type aliases
ConstantPrograms ==
    { [Base EXCEPT !.ref = ref, !.rhsP = rhsP, !.strict = strict] :
        ref \in {Const(<<"Zz">>), Const(<<"A", "X">>), Const(<<"Zz", "Q">>),
                 Const(<<"X", "Q">>), Synth(<<"A", "X">>), Const(<<"P", "X">>)},
        rhsP \in {Const(<<"A">>), Const(<<"P">>), Const(<<"X">>), Const(<<"Zz">>)},
        strict \in {<<2, 2>>} }
    \cup
    { [Base EXCEPT !.ref = ref, !.supA = Const(<<"Zz">>), !.strict = <<1, 2>>] :
        ref \in {Const(<<"Zz">>), Const(<<"Zz", "Q">>), Const(<<"Subclasses">>)} }
    \cup
    { [Base EXCEPT !.rhsP = rhsP, !.rhsX = rhsX] :
        rhsP \in {Const(<<"Y">>), Const(<<"A", "X">>)},
        rhsX \in {Const(<<"B">>), Const(<<"X">>)} }

\* errors begun by the pre-walk in both files, and an alias that nothing
\* refers to
PreWalkErrorPrograms ==
    { [Base EXCEPT !.rhsX = rhsX, !.ref = ref, !.rhsY = rhsY] :
        rhsX \in {Nullary, Dyn(<<"B">>), Const(<<"Zz">>)},
        ref \in {Dyn(<<"Q">>), Const(<<"X">>)},
        rhsY \in {Nullary, Const(<<"B">>)} }

\* class aliases that refer to each other: P, Y and A::X assigned plain
\* constants, in cycles of every length and direction
ClassAliasPrograms ==
    { [Base EXCEPT !.classAliases = {"X", "Y"}, !.rhsP = rhsP, !.rhsX = rhsX,
                   !.rhsY = rhsY, !.ref = Const(<<"P">>)] :
        rhsP \in {Const(<<"B">>), Const(<<"Y">>), Const(<<"A", "X">>)},
        rhsX \in {Const(<<"B">>), Const(<<"P">>), Const(<<"Y">>)},
        rhsY \in {Const(<<"P">>), Const(<<"A", "X">>), Const(<<"Zz">>)} }

\* ancestors bound to a type alias the payload has resolved, and a class
\* whose superclass is in the table before the pass
PayloadPrograms ==
    { [Base EXCEPT !.payloadY = TRUE, !.rhsY = NoExpr, !.supA = supA, !.mixA = mixA,
                   !.ref = Const(<<"Y">>)] :
        supA \in {TodoLit, Const(<<"Y">>), Const(<<"B">>)},
        mixA \in {NoExpr, Const(<<"Y">>), Const(<<"M">>)} }
    \cup
    { [Base EXCEPT !.superB = "A", !.supB = supB, !.rhsP = rhsP, !.supA = supA] :
        supA \in {TodoLit, Const(<<"M">>)},
        supB \in {TodoLit, Const(<<"A">>), Const(<<"M">>), Const(<<"P">>), Const(<<"Zz">>),
                  Const(<<"A", "X">>)},
        rhsP \in {Const(<<"A">>), Const(<<"M">>)} }

\* chains of three constants: unresolvable at the head, in the middle and at
\* the end, synthesized with one loc, with the name Subclasses, and next to
\* an unresolvable superclass in a less strict file, and through a type alias
\* of itself
ChainPrograms ==
    { [Base EXCEPT !.ref = ref, !.strict = strict] :
        ref \in {Const(<<"Zz", "Q", "R">>), Synth(<<"Zz", "Q", "R">>),
                 Const(<<"A", "Zz", "R">>), Const(<<"A", "X", "R">>),
                 Const(<<"Zz", "Subclasses">>), Const(<<"Zz", "Q", "Subclasses">>),
                 Const(<<"P", "Zz", "Q">>)},
        strict \in {<<2, 2>>, <<1, 2>>} }
    \cup
    { [Base EXCEPT !.ref = Synth(<<"Zz", "Q", "R">>), !.supA = Const(<<"Zz">>),
                   !.strict = <<1, 2>>],
      [Base EXCEPT !.ref = Const(<<"A", "X", "R">>), !.rhsX = Const(<<"X">>)] }

\* ancestors that stay pending until the failure path: unresolvable, bound to
\* a type alias, bound to a static field that is no class
PendingAncestorPrograms ==
    { [Base EXCEPT !.supA = supA, !.mixA = mixA, !.rhsP = Const(<<"Zz">>)] :
        supA \in {Const(<<"Zz">>), Const(<<"A", "X">>), Const(<<"P">>), Const(<<"Zz", "Q">>)},
        mixA \in {Const(<<"Zz">>), Const(<<"X">>), Const(<<"P">>), Const(<<"M">>)} }

\* a module M nested in class A beside the module M at the root: named from
\* the body of A, from the body of a class that inherits from A, and through A
NestedPrograms ==
    { [Base EXCEPT !.nestedM = TRUE, !.superB = superB, !.supB = supB, !.ref = ref,
                   !.rhsX = rhsX] :
        superB \in {Todo, "A"},
        supB \in {TodoLit, Const(<<"A">>)},
        ref \in {Const(<<"M">>), Const(<<"X">>), Const(<<"A", "M">>)},
        rhsX \in {Const(<<"M">>), Const(<<"B">>)} }

\* A declared as a module, and A that extends instead of includes
ClassDefPrograms ==
    { [Base EXCEPT !.kindA = "Module", !.supA = supA, !.mixA = mixA, !.extendsA = extendsA] :
        supA \in {TodoLit, Const(<<"M">>), Const(<<"Zz">>), Const(<<"A", "X">>)},
        mixA \in {NoExpr, Const(<<"M">>), Const(<<"X">>), SelfRef},
        extendsA \in BOOLEAN }
    \cup
    { [Base EXCEPT !.supA = supA, !.mixA = mixA, !.extendsA = TRUE] :
        supA \in {TodoLit, Const(<<"B">>), Const(<<"Zz">>)},
        mixA \in {Const(<<"M">>), Const(<<"Zz">>), Const(<<"X">>), Const(<<"B">>), SelfRef} }

Programs == ClassDefPrograms \cup NestedPrograms \cup PendingAncestorPrograms \cup AncestorPrograms \cup TypeAliasPrograms \cup ConstantPrograms
            \cup PreWalkErrorPrograms \cup ClassAliasPrograms \cup PayloadPrograms
            \cup ChainPrograms

(***************************************************************************)
(* The state machine                                                       *)
(***************************************************************************)
NumFiles == Cardinality(FileIds)

\* the trees and the symbol table as the namer hands them to the resolver
InitGS ==
    [lits |-> [id \in LitIds |-> InitLit(id)],
     patched |-> {},
     superClass |-> [c \in ClassSymbols |->
                        CASE c = "A" -> Todo [] c = "B" -> prog.superB [] OTHER -> NoSymbol],
     mixins |-> [c \in ClassSymbols |-> <<>>],
     resultType |-> [f \in StaticFields |->
                        IF f = "Y" /\ prog.payloadY THEN ParsedType("B") ELSE NullType],
     sealedSubclasses |-> [c \in ClassSymbols |-> {}],
     errors |-> <<>>,
     enforceFailed |-> {}]

\* a worker before its first try_pop
NewWorker == [pc |-> "pop", job |-> 0, constants |-> NewWalk,
              partiallyResolvedTrees |-> <<>>]

\* the entry of resolveConstants: every tree is pushed to fileq, the workers
\* start, the driver's lists are empty
Enter(files) ==
    /\ fileq = files
    /\ wk = [w \in Workers |-> NewWorker]
    /\ resultq = <<>>
    /\ popped = 0
    /\ trees = <<>>
    /\ todo = <<>>
    /\ todoAncestors = <<>>
    /\ todoClassAliases = <<>>
    /\ todoTypeAliases = <<>>
    /\ pc = "drain"
    /\ idx = 0
    /\ kept = <<>>
    /\ origSize = 0
    /\ progress = TRUE
    /\ first = TRUE
    /\ iters = 0

\* the trees and the symbol table at the entry of the resolver
InitSymbols ==
    /\ lits = InitGS.lits
    /\ patched = InitGS.patched
    /\ superClass = InitGS.superClass
    /\ mixins = InitGS.mixins
    /\ resultType = InitGS.resultType
    /\ sealedSubclasses = InitGS.sealedSubclasses
    /\ errors = InitGS.errors
    /\ enforceFailed = InitGS.enforceFailed
    /\ hist = [njobs |-> 0, preErrors |-> 0, iterJobs |-> 0, run |-> 1, snap |-> InitGS,
               ancestors |-> <<>>]

\* trees without type members
NoTypeMembers ==
    /\ decls = <<>>
    /\ memberType = <<>>
    /\ tpos = 0

\* trees without a mixes_in_class_methods send
NoMixes ==
    /\ mixSends = <<>>
    /\ classMethods = [sym \in UserClasses |-> NoSymbol]
    /\ mpos = 0

\* trees without methods and without variable declarations
NoMethods ==
    /\ body = [stats |-> <<>>, methods |-> <<>>, permitOverloads |-> FALSE,
               sigil |-> "true", abstract |-> FALSE, interface |-> FALSE]
    /\ sw = [epos |-> 0, nestedBlockCounts |-> <<0>>, mode |-> "walk", seq |-> <<>>,
             spos |-> 0, lastSigs |-> <<>>, erased |-> {}, injected |-> {},
             emptied |-> {}]
    /\ methods = <<>>
    /\ fields = <<>>

\* Resolver::run is entered with the caller's pool
Init ==
    /\ prog \in Programs
    /\ Enter(<<1, 2>>)
    /\ InitSymbols
    /\ entry = "run"
    /\ poolSize = MaxWorkers
    /\ rpc = 1
    /\ passes = <<>>
    /\ NoTypeMembers
    /\ NoMethods
    /\ NoMixes

SetGS(g) ==
    /\ lits' = g.lits
    /\ patched' = g.patched
    /\ superClass' = g.superClass
    /\ mixins' = g.mixins
    /\ resultType' = g.resultType
    /\ sealedSubclasses' = g.sealedSubclasses
    /\ errors' = g.errors
    /\ enforceFailed' = g.enforceFailed

Install(S) ==
    /\ pc' = S.pc
    /\ idx' = S.idx
    /\ kept' = S.kept
    /\ origSize' = S.origSize
    /\ progress' = S.progress
    /\ first' = S.first
    /\ iters' = S.iters
    /\ trees' = S.trees
    /\ todo' = S.todo
    /\ todoAncestors' = S.todoAncestors
    /\ todoClassAliases' = S.todoClassAliases
    /\ todoTypeAliases' = S.todoTypeAliases
    /\ SetGS(S.g)

gsVars == <<lits, patched, superClass, mixins, resultType, sealedSubclasses, errors,
            enforceFailed>>
listVars == <<trees, todo, todoAncestors, todoClassAliases, todoTypeAliases>>
loopVars == <<pc, idx, kept, origSize, progress, first, iters>>
poolVars == <<fileq, wk, resultq, popped>>
\* what the passes after constant resolution read and write
laterVars == <<entry, poolSize, rpc, passes, decls, memberType, tpos, body, sw, methods,
               fields, mixSends, classMethods, mpos>>

totalJobs(S) ==
    Len(S.todo) + Len(S.todoAncestors) + Len(S.todoClassAliases) + Len(S.todoTypeAliases)

\* the worker lambda: fileq->try_pop(job) got an item
WorkerPop(w) ==
    /\ wk[w].pc = "pop"
    /\ fileq # <<>>
    /\ fileq' = Tail(fileq)
    /\ wk' = [wk EXCEPT ![w].pc = "walk", ![w].job = Head(fileq)]
    /\ UNCHANGED <<prog, laterVars, resultq, popped, gsVars, listVars, loopVars, hist>>

\* job.tree = TreeMap::apply(ictx, constants, job.tree); emplace_back
WorkerWalk(w) ==
    /\ wk[w].pc = "walk"
    /\ \E r \in {applyWalk(GS, wk[w].constants, FileEvents(wk[w].job))} :
           /\ wk' = [wk EXCEPT ![w].pc = "pop", ![w].job = 0, ![w].constants = r.w,
                               ![w].partiallyResolvedTrees = Append(@, [file |-> wk[w].job])]
           /\ SetGS(r.g)
    /\ UNCHANGED <<prog, laterVars, fileq, resultq, popped, listVars, loopVars, hist>>

\* try_pop is done: the worker pushes its result, if it walked a tree, and ends
WorkerFinish(w) ==
    /\ wk[w].pc = "pop"
    /\ fileq = <<>>
    /\ resultq' = IF wk[w].partiallyResolvedTrees # <<>>
                  THEN Append(resultq, [todo_ |-> wk[w].constants.todo_,
                                        todoAncestors_ |-> wk[w].constants.todoAncestors_,
                                        todoClassAliases_ |-> wk[w].constants.todoClassAliases_,
                                        todoTypeAliases_ |-> wk[w].constants.todoTypeAliases_,
                                        trees |-> wk[w].partiallyResolvedTrees])
                  ELSE resultq
    /\ wk' = [wk EXCEPT ![w] = [NewWorker EXCEPT !.pc = "exit"]]
    /\ UNCHANGED <<prog, laterVars, fileq, popped, gsVars, listVars, loopVars, hist>>

\* the drain loop: resultq->wait_pop_timed got an item
DriverPop ==
    /\ pc = "drain"
    /\ resultq # <<>>
    /\ LET threadResult == Head(resultq)
       IN  /\ todo' = todo \o threadResult.todo_
           /\ todoAncestors' = todoAncestors \o threadResult.todoAncestors_
           /\ todoClassAliases' = todoClassAliases \o threadResult.todoClassAliases_
           /\ todoTypeAliases' = todoTypeAliases \o threadResult.todoTypeAliases_
           /\ trees' = trees \o threadResult.trees
           /\ popped' = popped + Len(threadResult.trees)
    /\ resultq' = Tail(resultq)
    /\ UNCHANGED <<prog, laterVars, fileq, wk, gsVars, loopVars, hist>>

\* a drain loop that ends as soon as it finds resultq empty
DriverJoinedWhenEmpty ==
    /\ pc = "drain"
    /\ resultq = <<>>
    /\ pc' = "sort"
    /\ UNCHANGED <<prog, laterVars, poolVars, gsVars, listVars, idx, kept, origSize, progress,
                   first, iters, hist>>

\* the drain loop ends: every tree pushed to fileq has come back
DriverJoined ==
    /\ pc = "drain"
    /\ popped = NumFiles
    /\ pc' = "sort"
    /\ UNCHANGED <<prog, laterVars, poolVars, gsVars, listVars, idx, kept, origSize, progress,
                   first, iters, hist>>

SortLists ==
    /\ pc = "sort"
    /\ \E S \in {sortLists(Driver)} : Install(S)
    /\ hist' = [hist EXCEPT !.njobs = totalJobs(Driver), !.preErrors = Len(errors),
                             !.iterJobs = totalJobs(Driver),
                             !.ancestors = sortLists(Driver).todoAncestors]
    /\ UNCHANGED <<prog, laterVars, poolVars>>

LoopTest ==
    /\ pc = "loop"
    /\ \E S \in {loopTest(Driver)} : Install(S)
    /\ hist' = [hist EXCEPT !.iterJobs = totalJobs(Driver)]
    /\ UNCHANGED <<prog, laterVars, poolVars>>

AncestorStep ==
    /\ pc = "ancestors" /\ atJob(Driver)
    /\ \E S \in {ancestorStep(Driver)} : Install(S)
    /\ UNCHANGED <<prog, laterVars, poolVars, hist>>

AncestorsEnd ==
    /\ pc = "ancestors" /\ ~atJob(Driver)
    /\ \E S \in {ancestorsEnd(Driver)} : Install(S)
    /\ UNCHANGED <<prog, laterVars, poolVars, hist>>

ConstantStep ==
    /\ pc = "constants" /\ atJob(Driver)
    /\ \E S \in {constantStep(Driver)} : Install(S)
    /\ UNCHANGED <<prog, laterVars, poolVars, hist>>

ConstantsEnd ==
    /\ pc = "constants" /\ ~atJob(Driver)
    /\ \E S \in {constantsEnd(Driver)} : Install(S)
    /\ UNCHANGED <<prog, laterVars, poolVars, hist>>

ClassAliasStep ==
    /\ pc = "classAliases" /\ atJob(Driver)
    /\ \E S \in {classAliasStep(Driver)} : Install(S)
    /\ UNCHANGED <<prog, laterVars, poolVars, hist>>

ClassAliasesEnd ==
    /\ pc = "classAliases" /\ ~atJob(Driver)
    /\ \E S \in {classAliasesEnd(Driver)} : Install(S)
    /\ UNCHANGED <<prog, laterVars, poolVars, hist>>

TypeAliasStep ==
    /\ pc = "typeAliases" /\ atJob(Driver)
    /\ \E S \in {typeAliasStep(Driver)} : Install(S)
    /\ UNCHANGED <<prog, laterVars, poolVars, hist>>

TypeAliasesEnd ==
    /\ pc = "typeAliases" /\ ~atJob(Driver)
    /\ \E S \in {typeAliasesEnd(Driver)} : Install(S)
    /\ UNCHANGED <<prog, laterVars, poolVars, hist>>

FailSort ==
    /\ pc = "failSort"
    /\ \E S \in {failSort(Driver)} : Install(S)
    /\ UNCHANGED <<prog, laterVars, poolVars, hist>>

FailConstantStep ==
    /\ pc = "failConstants" /\ atJob(Driver)
    /\ \E S \in {failConstantStep(Driver)} : Install(S)
    /\ UNCHANGED <<prog, laterVars, poolVars, hist>>

FailConstantsEnd ==
    /\ pc = "failConstants" /\ ~atJob(Driver)
    /\ \E S \in {failConstantsEnd(Driver)} : Install(S)
    /\ UNCHANGED <<prog, laterVars, poolVars, hist>>

FailAncestorStep ==
    /\ pc = "failAncestors" /\ atJob(Driver)
    /\ \E S \in {failAncestorStep(Driver)} : Install(S)
    /\ UNCHANGED <<prog, laterVars, poolVars, hist>>

FailAncestorsEnd ==
    /\ pc = "failAncestors" /\ ~atJob(Driver)
    /\ \E S \in {failAncestorsEnd(Driver)} : Install(S)
    /\ UNCHANGED <<prog, laterVars, poolVars, hist>>

WorkerNext == \E w \in Workers : WorkerPop(w) \/ WorkerWalk(w) \/ WorkerFinish(w)

DriverNext ==
    \/ DriverPop \/ DriverJoined \/ SortLists \/ LoopTest
    \/ AncestorStep \/ AncestorsEnd \/ ConstantStep \/ ConstantsEnd
    \/ ClassAliasStep \/ ClassAliasesEnd \/ TypeAliasStep \/ TypeAliasesEnd
    \/ FailSort \/ FailConstantStep \/ FailConstantsEnd
    \/ FailAncestorStep \/ FailAncestorsEnd

Next == WorkerNext \/ DriverNext

Spec == Init /\ [][Next]_vars

\* the threads of the pool and the driver keep running
FairSpec == Spec /\ WF_vars(Next)

\* resolveConstants is entered again with the trees and the symbol table the
\* first run returned
Rerun ==
    /\ pc = "done"
    /\ hist.run = 1
    /\ fileq' = [i \in 1..Len(trees) |-> trees[i].file]
    /\ wk' = [w \in Workers |-> NewWorker]
    /\ resultq' = <<>>
    /\ popped' = 0
    /\ trees' = <<>>
    /\ todo' = <<>>
    /\ todoAncestors' = <<>>
    /\ todoClassAliases' = <<>>
    /\ todoTypeAliases' = <<>>
    /\ pc' = "drain"
    /\ idx' = 0
    /\ kept' = <<>>
    /\ origSize' = 0
    /\ progress' = TRUE
    /\ first' = TRUE
    /\ iters' = 0
    /\ hist' = [hist EXCEPT !.run = 2, !.snap = GS]
    /\ UNCHANGED <<prog, laterVars, gsVars>>

NextRerun == Next \/ Rerun

SpecRerun == Init /\ [][NextRerun]_vars

(***************************************************************************)
(* The run with one worker, as a function of the program: the worker walks *)
(* the files in fileq order with one ResolveConstantsWalk, the driver      *)
(* merges its single result and runs to the return.                        *)
(***************************************************************************)
RECURSIVE serialWalk(_, _, _)
serialWalk(g, w, files) ==
    IF files = <<>> THEN [g |-> g, w |-> w]
    ELSE LET next(r) == serialWalk(r.g, r.w, Tail(files))
         IN  Then(applyWalk(g, w, FileEvents(Head(files))), next)

serialJoined ==
    LET joined(r) ==
            [pc |-> "sort", idx |-> 0, kept |-> <<>>, origSize |-> 0, progress |-> TRUE,
             first |-> TRUE, iters |-> 0,
             trees |-> <<[file |-> 1], [file |-> 2]>>,
             todo |-> r.w.todo_, todoAncestors |-> r.w.todoAncestors_,
             todoClassAliases |-> r.w.todoClassAliases_,
             todoTypeAliases |-> r.w.todoTypeAliases_, g |-> r.g]
    IN  Then(serialWalk(InitGS, NewWalk, <<1, 2>>), joined)

serialSorted == Then(serialJoined, sortLists)

serialReturn == runToReturn(serialSorted)

(***************************************************************************)
(* Properties                                                              *)
(***************************************************************************)
Returned == pc = "done"

PresentLits == {id \in LitIds : LitInfo(id).present}

\* C1: after resolveConstants returns, every constant of every tree is a
\* ConstantLit whose symbol exists and is a symbol of the table or one of
\* StubModule, StubSuperClass, StubMixin, and isAlreadyResolved holds of it
\* (a type alias it is bound to has a result type), which is what
\* ResolveSanityCheckWalk enforces.
C1_AllConstantsResolved ==
    Returned =>
        \A id \in PresentLits :
            /\ lits[id].node = "ConstantLit"
            /\ exists(lits[id].symbol)
            /\ lits[id].symbol \in Symbols
            /\ isAlreadyResolved(GS, id)

\* a return after the failure path stubbed one constant and bound another to a
\* type alias it had to give the untyped type
C1_Witness ==
    /\ Returned
    /\ \E id \in PresentLits : lits[id].symbol = StubModule
    /\ \E id \in PresentLits \ LhsLits :
           /\ isTypeAlias(lits[id].symbol)
           /\ resultType[lits[id].symbol] = UntypedType

\* the jobs of a list, with their multiplicities
BagOfSeq(s) == [x \in {s[i] : i \in DOMAIN s} |-> Cardinality({i \in DOMAIN s : s[i] = x})]

\* after the sort the four lists only lose jobs
C2_NoReenqueue ==
    pc \notin {"drain", "sort"} =>
        /\ BagOfSeq(todo') \sqsubseteq BagOfSeq(todo)
        /\ BagOfSeq(todoAncestors') \sqsubseteq BagOfSeq(todoAncestors)
        /\ BagOfSeq(todoClassAliases') \sqsubseteq BagOfSeq(todoClassAliases)
        /\ BagOfSeq(todoTypeAliases') \sqsubseteq BagOfSeq(todoTypeAliases)

\* at the loop test after an iteration, if the loop goes on, the four lists
\* together hold fewer jobs than when the iteration began
C2_IterationShrinks ==
    (pc = "loop" /\ iters >= 1 /\ loopCondition(Driver)) =>
        totalJobs(Driver) < hist.iterJobs

\* njobs is the number of jobs on the four lists at the sort
C2_IterationBound == iters <= hist.njobs + 1

\* C2: the fixpoint loop always terminates: no job is ever put back on a
\* list, every iteration after which the loop continues has removed at least
\* one job from one of the four lists, the number of iterations is at most
\* the number of initially enqueued jobs plus one, and resolveConstants
\* returns.
C2_FixpointTerminates ==
    /\ [](C2_IterationShrinks /\ C2_IterationBound)
    /\ [][C2_NoReenqueue]_vars
    /\ <>Returned

\* a return after three iterations, the last of which removed nothing and
\* left jobs to the failure path
C2_Witness == Returned /\ iters = 3 /\ totalJobs(Driver) > 0 /\ hist.njobs >= 3

\* the driver has sorted the merged lists and not yet tested the loop
Sorted == pc = "loop" /\ iters = 0

\* the lists after the sort are those of the run with one worker
SameSortedLists(S) ==
    /\ todo = S.todo
    /\ todoAncestors = S.todoAncestors
    /\ todoClassAliases = S.todoClassAliases
    /\ todoTypeAliases = S.todoTypeAliases
    /\ trees = S.trees

\* superclasses, mixin lists, result types, sealed subclasses and the symbols
\* the constants are bound to (stubs included) are those of g
SameSymbolTable(g) ==
    /\ superClass = g.superClass
    /\ mixins = g.mixins
    /\ resultType = g.resultType
    /\ sealedSubclasses = g.sealedSubclasses
    /\ lits = g.lits

\* the errors begun after the join
AfterJoin(errs, n) == SubSeq(errs, n + 1, Len(errs))

Count(s, x) == Cardinality({i \in DOMAIN s : s[i] = x})

\* the positions of x in the sequences seqs[k], k in its domain
Positions(seqs, x) ==
    UNION { { <<k, i>> : i \in {j \in DOMAIN seqs[k] : seqs[k][j] = x} } : k \in DOMAIN seqs }

\* the places the tree of file f is at: fileq, a worker's hands (job), a
\* worker's partiallyResolvedTrees, a result on resultq, the driver's trees
Places(f) ==
    Count(fileq, f)
    + Cardinality({w \in Workers : wk[w].pc = "walk" /\ wk[w].job = f})
    + Cardinality(Positions([w \in Workers |-> wk[w].partiallyResolvedTrees], [file |-> f]))
    + Cardinality(Positions([i \in DOMAIN resultq |-> resultq[i].trees], [file |-> f]))
    + Count(trees, [file |-> f])

\* the constants of file f that the namer left unresolved
FileConstants(f) ==
    {id \in PresentLits \ LhsLits :
        SlotFile(SlotOf(id)) = f /\ InitLit(id).node = "UnresolvedConstantLit"}

\* the tree of file f is still on fileq or in the hands of the worker that
\* popped it
Unwalked(f) ==
    Count(fileq, f) = 1 \/ \E w \in Workers : wk[w].pc = "walk" /\ wk[w].job = f

\* every tree is at one place, and it has been walked exactly when it has
\* left the hands of the worker that popped it
C4_EachFileOnce ==
    \A f \in FileIds :
        /\ Places(f) = 1
        /\ \A id \in FileConstants(f) :
               lits[id].node = IF Unwalked(f) THEN "UnresolvedConstantLit" ELSE "ConstantLit"

\* when the drain loop has ended the merged lists hold each tree once and the
\* jobs the walks of the files produce, each once
C4_MergedOnce ==
    pc = "sort" =>
        /\ \A f \in FileIds : Count(trees, [file |-> f]) = 1
        /\ Len(trees) = NumFiles
        /\ BagOfSeq(todo) = BagOfSeq(serialJoined.todo)
        /\ BagOfSeq(todoAncestors) = BagOfSeq(serialJoined.todoAncestors)
        /\ BagOfSeq(todoClassAliases) = BagOfSeq(serialJoined.todoClassAliases)
        /\ BagOfSeq(todoTypeAliases) = BagOfSeq(serialJoined.todoTypeAliases)

\* C4: every file is taken from fileq by one worker and walked once; the
\* drain loop ends in every schedule, whether or not every worker obtained a
\* file; when it ends the merged tree list holds each tree once and the
\* merged lists hold the jobs of every walk once.
C4_DrainEndsWithEverything ==
    /\ [](C4_EachFileOnce /\ C4_MergedOnce)
    /\ <>(pc # "drain")

\* the drain loop has ended with both trees and their jobs while a worker
\* that obtained no file has not even found fileq empty yet
C4_Witness ==
    /\ pc = "sort"
    /\ \E w \in Workers : wk[w].pc = "pop"
    /\ Len(trees) = NumFiles
    /\ totalJobs(Driver) >= 3

\* superclasses, mixin lists, result types and sealed-subclass records
symbolTable == <<superClass, mixins, resultType, sealedSubclasses>>

\* C5: no step of a worker changes the symbol table, and nothing changes it
\* before the worker results are joined: every write to superclasses, mixin
\* lists, result types and sealed subclasses is a step of the driver after
\* the drain loop.
C5_WorkersLeaveSymbolTable ==
    [][(pc = "drain" \/ WorkerNext) => UNCHANGED symbolTable]_vars

\* a worker has walked a tree, bound constants of it and begun an error, and
\* the symbol table is as the namer left it
C5_Witness ==
    /\ pc = "drain"
    /\ \E w \in Workers : wk[w].partiallyResolvedTrees # <<>>
    /\ \E id \in PresentLits \ LhsLits :
           InitLit(id).node = "UnresolvedConstantLit" /\ isClass(lits[id].symbol)
    /\ errors # <<>>
    /\ superClass = InitGS.superClass
    /\ mixins = InitGS.mixins
    /\ resultType = InitGS.resultType
    /\ sealedSubclasses = InitGS.sealedSubclasses

\* C6: a second run of the pass on the trees and the symbol table the first
\* run returned changes nothing: the trees, every superclass and mixin list,
\* every result type and sealed-subclass record are as the first run left
\* them, and no error is begun.
C6_SecondRunNoOp ==
    (Returned /\ hist.run = 2) =>
        /\ lits = hist.snap.lits
        /\ patched = hist.snap.patched
        /\ superClass = hist.snap.superClass
        /\ mixins = hist.snap.mixins
        /\ resultType = hist.snap.resultType
        /\ sealedSubclasses = hist.snap.sealedSubclasses
        /\ errors = hist.snap.errors

\* the errors begun so far with the given code
ErrorsWith(code) == {i \in DOMAIN errors : errors[i].code = code}

\* C7: in every state the ancestry written by the ancestor jobs, superclass
\* and mixins together, is acyclic: no class is among its own ancestors.
C7_AncestryAcyclic == \A c \in ClassSymbols : c \notin Ancestry(GS, {c}, {})

\* classes declared as parents of each other, one of which also includes a
\* module: the later job wrote the stub, the other ancestors are written
C7_Witness ==
    /\ Returned
    /\ prog.supA = Const(<<"B">>) /\ prog.supB = Const(<<"A">>)
    /\ ErrorsWith("CircularDependency") # {}
    /\ superClass["A"] = "B"
    /\ superClass["B"] = StubSuperClass
    /\ mixins["A"] = <<"M">>

\* the CircularDependency errors begun at the superclass of A or of B
SuperclassCycleErrors ==
    {i \in ErrorsWith("CircularDependency") :
        errors[i].loc \in {LitInfo(TopLit(1)).loc, LitInfo(TopLit(4)).loc}}

MutualSuperclasses == prog.supA = Const(<<"B">>) /\ prog.supB = Const(<<"A">>)

\* C8: for class A < B and class B < A exactly one CircularDependency error
\* is begun; B, whose ancestor job comes later in the (file, begin, end)
\* order, gets StubSuperClass and the error, and A keeps B as its superclass.
C8_OneCircularDependency ==
    (Returned /\ MutualSuperclasses) =>
        /\ Cardinality(SuperclassCycleErrors) = 1
        /\ \A i \in SuperclassCycleErrors :
               errors[i].what = "B" /\ errors[i].loc = LitInfo(TopLit(4)).loc
        /\ superClass["B"] = StubSuperClass
        /\ superClass["A"] = "B"

\* the two classes name each other and A includes nothing: the one
\* CircularDependency error of the run is B's
C8_Witness ==
    /\ Returned
    /\ MutualSuperclasses
    /\ prog.mixA = NoExpr
    /\ Cardinality(ErrorsWith("CircularDependency")) = 1
    /\ superClass["B"] = StubSuperClass

TypeAliases == {a \in {"X", "Y"} : isTypeAlias(a) /\ ~(a = "Y" /\ prog.payloadY)}

\* X = T.type_alias(Y) and Y = T.type_alias(A::X)
AliasCycle == prog.rhsX = Const(<<"Y">>) /\ prog.rhsY = Const(<<"A", "X">>)

\* the right-hand side of alias a refers to a, directly or through the other
\* alias
SelfReferential(a) ==
    \/ AliasCycle
    \/ a = "X" /\ prog.rhsX = Const(<<"X">>)
    \/ a = "Y" /\ prog.rhsY = Const(<<"Y">>)

\* a or an alias on its cycle is declared inside a generic class (X is
\* declared in A)
CycleInGenericClass(a) == prog.genericA /\ (a = "X" \/ AliasCycle)

\* constants of the program that name alias a: its left-hand side, X inside
\* A, A::X and Y anywhere
Referring(a) ==
    {id \in PresentLits :
        /\ LitInfo(id).cnst = a
        /\ \/ id \in LhsLits
           \/ a = "Y" /\ LitInfo(id).scope = 0
           \/ a = "X" /\ LitInfo(id).scope = 0 /\ SlotOf(id) = 3
           \/ /\ a = "X" /\ LitInfo(id).scope > 0
              /\ LitInfo(LitInfo(id).scope).cnst = "A"
              /\ LitInfo(LitInfo(id).scope).scope = 0}

\* the driver is before the failure path
BeforeFailure == pc \notin {"failConstants", "failAncestors", "done"}

\* alias a gets no result type before the failure path; at the return one
\* RecursiveTypeAlias error is begun for it, its resultType is untyped and
\* the constants naming it are bound to it
RecursiveAliasOutcome(a) ==
    /\ BeforeFailure => resultType[a] = NullType
    /\ Returned =>
          /\ Cardinality({i \in ErrorsWith("RecursiveTypeAlias") : errors[i].what = a}) = 1
          /\ resultType[a] = UntypedType
          /\ \A id \in Referring(a) : lits[id].symbol = a

\* C9 as stated: a type alias whose right-hand side refers to itself,
\* directly or through other aliases, never resolves in the loop; the failure
\* path begins exactly one RecursiveTypeAlias error for it, makes its
\* resultType untyped and binds the constants referring to it to the alias.
C9_RecursiveAlias ==
    \A a \in TypeAliases : SelfReferential(a) => RecursiveAliasOutcome(a)

\* C9 amended: the same, for the self-referential aliases that are not
\* declared in a generic class and whose cycle passes through no alias
\* declared in a generic class.
C9_RecursiveAliasOutsideGeneric ==
    \A a \in TypeAliases :
        (SelfReferential(a) /\ ~CycleInGenericClass(a)) => RecursiveAliasOutcome(a)

\* X and Y refer to each other outside a generic class, A::X is also used in
\* B: two RecursiveTypeAlias errors, one for each alias
C9_Witness ==
    /\ Returned
    /\ AliasCycle /\ ~prog.genericA
    /\ Cardinality(ErrorsWith("RecursiveTypeAlias")) = 2
    /\ Cardinality(Referring("X")) >= 3
    /\ resultType["X"] = UntypedType /\ resultType["Y"] = UntypedType

\* the aliases the type-alias jobs of the list are for
AliasJobs == {todoTypeAliases[i].lhs : i \in DOMAIN todoTypeAliases}

\* C10: every type alias has a type-alias job at the sort, and when
\* resolveConstants returns every one of them has a resultType: the parsed
\* type, or untyped; untyped when its job is still on the list at the return.
C10_AliasesHaveResultType ==
    /\ Sorted => AliasJobs = TypeAliases
    /\ Returned =>
          \A a \in TypeAliases :
              /\ resultType[a] # NullType
              /\ resultType[a] = UntypedType \/ resultType[a][1] = "type"
              /\ a \in AliasJobs => resultType[a] = UntypedType

\* a return with the job of X left on the list, X untyped, and Y given its
\* parsed type by the loop
C10_Witness ==
    /\ Returned
    /\ AliasJobs = {"X"}
    /\ resultType["X"] = UntypedType
    /\ resultType["Y"] = ParsedType("B")
    /\ \A id \in PresentLits : lits[id].symbol # "X" \/ id \in LhsLits

\* the symbols the AliasType result types lead to from sym in at most n steps
RECURSIVE AliasChain(_, _, _)
AliasChain(rt, sym, n) ==
    IF n = 0 \/ sym \notin StaticFields THEN {}
    ELSE IF rt[sym][1] # "alias" THEN {}
    ELSE {rt[sym][2]} \cup AliasChain(rt, rt[sym][2], n - 1)

AliasGraphAcyclic ==
    \A s \in StaticFields : s \notin AliasChain(resultType, s, Cardinality(StaticFields))

\* the class-alias job the driver is at would close a cycle: its right-hand
\* side is bound to a symbol that is, or leads to, its left-hand side
AtCycleClosingJob ==
    /\ pc = "classAliases" /\ atJob(Driver)
    /\ LET closes(it, sym) ==
               /\ exists(sym) /\ ~isTypeAlias(sym)
               /\ it.lhs \in {sym} \cup AliasChain(resultType, sym, Cardinality(StaticFields))
       IN  closes(todoClassAliases[idx], lits[todoClassAliases[idx].rhs].symbol)

\* C11: in every state the AliasType result types form no cycle, so following
\* them from any symbol ends, also for class aliases that refer to each other
\* in cycles of any length and direction; the class-alias job that would close
\* a cycle gives its left-hand side the untyped type and reports
\* RecursiveClassAlias instead.
C11_NoAliasCycle ==
    /\ []AliasGraphAcyclic
    /\ [][AtCycleClosingJob /\ idx' # idx =>
              /\ resultType'[todoClassAliases[idx].lhs] = UntypedType
              /\ errors' = Append(errors, [code |-> "RecursiveClassAlias",
                                           loc |-> symbolLoc(todoClassAliases[idx].lhs),
                                           what |-> todoClassAliases[idx].lhs,
                                           line |-> symbolLoc(todoClassAliases[idx].lhs)])]_vars

\* P = Y, Y = A::X and A::X = P have been processed: two of them are aliases,
\* the third is untyped
C11_Witness ==
    /\ Returned
    /\ prog.classAliases = {"X", "Y"}
    /\ prog.rhsP = Const(<<"Y">>) /\ prog.rhsY = Const(<<"A", "X">>)
    /\ prog.rhsX = Const(<<"P">>)
    /\ Cardinality({f \in StaticFields : resultType[f][1] = "alias"}) = 2
    /\ Cardinality({f \in StaticFields : resultType[f] = UntypedType}) = 1
    /\ Cardinality(ErrorsWith("RecursiveClassAlias")) = 1

\* the driver is at a job of the failure path's loop over todoAncestors
AtFailAncestorJob == pc = "failAncestors" /\ atJob(Driver)

\* the ancestor of the job is one the loop could not attach: it is bound to
\* StubModule (its constant could not be resolved), to a type alias, or to
\* something that does not dealias to a class
PendingKind(job) ==
    LET kind(s) ==
            CASE s = StubModule -> "unresolved"
              [] isTypeAlias(s) -> "typeAlias"
              [] exists(s) /\ ~isClass(dealias(GS, s)) -> "notAClass"
              [] OTHER -> "other"
    IN  kind(lits[job.ancestor].symbol)

\* what the step of the failure path did with the symbol stub for job
WroteAncestor(job, stub) ==
    IF job.isSuperclass
    THEN \/ superClass'[job.klass] = stub /\ superClass[job.klass] \in {NoSymbol, Todo, stub}
         \/ /\ superClass[job.klass] \notin {NoSymbol, Todo, stub}
            /\ superClass'[job.klass] = superClass[job.klass]
            /\ errors'[Len(errors')].code = "RedefinitionOfParents"
    ELSE mixins'[job.klass] = Append(mixins[job.klass], stub)

\* C12 as stated: for every ancestor job still pending when the loop exits the
\* failure path makes StubSuperClass the superclass of klass (superclass job)
\* or appends StubMixin to the mixins of klass (mixin job).
C12_CanonicalStubs ==
    [][AtFailAncestorJob /\ idx' # idx =>
          IF todoAncestors[idx].isSuperclass
          THEN superClass'[todoAncestors[idx].klass] = StubSuperClass
          ELSE mixins'[todoAncestors[idx].klass] =
                   Append(mixins[todoAncestors[idx].klass], StubMixin)]_vars

\* C12 amended: every ancestor job still pending when the loop exits is of one
\* of three kinds when the failure path reaches it, and the failure path
\* writes StubModule when the ancestor constant could not be resolved, and the
\* stub of the job's kind (StubSuperClass, StubMixin) when the ancestor is
\* bound to a type alias or to something that is no class; a mixin is
\* appended, a superclass is set unless klass has another superclass, which
\* is kept with a RedefinitionOfParents error.
C12_FailurePathStubs ==
    [][AtFailAncestorJob /\ idx' # idx =>
          /\ PendingKind(todoAncestors[idx]) # "other"
          /\ WroteAncestor(todoAncestors[idx],
                           IF PendingKind(todoAncestors[idx]) = "unresolved" THEN StubModule
                           ELSE IF todoAncestors[idx].isSuperclass THEN StubSuperClass
                           ELSE StubMixin)]_vars

\* class A < Zz; include X: the failure path has made StubModule the
\* superclass and appended StubMixin for the type alias
C12_Witness ==
    /\ Returned
    /\ prog.supA = Const(<<"Zz">>) /\ prog.mixA = Const(<<"X">>)
    /\ superClass["A"] = StubModule
    /\ mixins["A"] = <<StubMixin>>

\* the expression is a constant or self, not the placeholder of a class
\* without superclass
Declared(e) == e.kind \in {"const", "dyn", "self"}

\* C13: after resolveConstants returns every class that declares a superclass
\* has its superclass set, to a class or a stub, and every declared mixin has
\* been appended to the mixins of its class, also when the ancestor was bound
\* to a type alias at the time the pre-walk visited it.
C13_AncestorsAttached ==
    Returned =>
        /\ Declared(prog.supA) => superClass["A"] \notin {NoSymbol, Todo}
        /\ Declared(prog.supB) => superClass["B"] \notin {NoSymbol, Todo}
        /\ Declared(prog.mixA) => Len(mixins["A"]) = 1
        /\ ~Declared(prog.mixA) => mixins["A"] = <<>>

\* the slots that hold a chain of constants whose head no scope declares
HeadUnresolved == {s \in Slots : SlotExpr(s).kind = "const" /\ SlotExpr(s).names[1] = "Zz"}

ChainLits(s) == {MaxChain * (s - 1) + k : k \in 1..Len(SlotExpr(s).names)}

\* the StubConstant errors begun for the constants of the chain in slot s
ChainErrors(s) ==
    {i \in ErrorsWith("StubConstant") :
        \E id \in ChainLits(s) : errors[i].loc = LitInfo(id).loc /\ errors[i].what = LitInfo(id).cnst}

\* the failure path visits the constants of a chain from the head outwards
HeadFirst ==
    pc = "failConstants" =>
        \A i, j \in DOMAIN todo :
            (/\ i < j
             /\ SlotOf(todo[i].out) = SlotOf(todo[j].out)
             /\ SlotOf(todo[i].out) \in HeadUnresolved
             /\ {todo[i].out, todo[j].out} \cap LhsLits = {})
                => todo[i].out < todo[j].out

AllStubbed(s) == \A id \in ChainLits(s) : lits[id].symbol = StubModule

\* C14 as stated: for a chain such as A::B::Missing whose head cannot be
\* resolved the failure path processes the less-nested constant before the
\* constants scoped under it, emits exactly one StubConstant error for the
\* whole chain and binds every constant of the chain to StubModule.
C14_OneErrorPerChain ==
    /\ HeadFirst
    /\ Returned =>
          \A s \in HeadUnresolved : Cardinality(ChainErrors(s)) = 1 /\ AllStubbed(s)

\* C14 amended: the same, except that a constant named Subclasses scoped
\* under the unresolved head is reported as well: the chain has one
\* StubConstant error for its head and one for every further constant named
\* Subclasses.
C14_OneErrorPerChainButSubclasses ==
    /\ HeadFirst
    /\ Returned =>
          \A s \in HeadUnresolved :
              /\ AllStubbed(s)
              /\ Cardinality(ChainErrors(s)) =
                     1 + Cardinality({k \in 2..Len(SlotExpr(s).names) :
                                         SlotExpr(s).names[k] = "Subclasses"})
              /\ \E i \in ChainErrors(s) : errors[i].what = "Zz"

\* Zz::Q::R in the body of B: one error, at Zz, and three constants bound to
\* StubModule
C14_Witness ==
    /\ Returned
    /\ prog.ref = Const(<<"Zz", "Q", "R">>)
    /\ 5 \in HeadUnresolved
    /\ Cardinality(ChainErrors(5)) = 1
    /\ AllStubbed(5)
    /\ lits[TopLit(5)].resolutionScope = NoSymbol

\* the driver is at an ancestor job, in the loop or in the failure path
AtAncestorJob == pc \in {"ancestors", "failAncestors"} /\ atJob(Driver)

\* the job is a superclass job whose ancestor is bound, through class
\* aliases, to the class R, which is not klass and does not derive from it
ResolvesToClass(job, R) ==
    LET bound(s) ==
            /\ exists(s) /\ ~isTypeAlias(s)
            /\ R = dealias(GS, s)
            /\ isClass(R)
            /\ R # job.klass /\ ~derivesFrom(GS, R, job.klass)
    IN  job.isSuperclass /\ bound(lits[job.ancestor].symbol)

\* C16: a superclass job whose ancestor resolves, through aliases, to a class
\* R that is not klass and does not derive from klass sets the superclass of
\* klass to R without an error when it is unset, todo or R already, wherever R
\* is defined in the source; when klass has another superclass a
\* RedefinitionOfParents error is emitted and the superclass stays.
C16_SuperclassWrite ==
    [][AtAncestorJob /\ idx' # idx =>
          \A R \in ClassSymbols :
              ResolvesToClass(todoAncestors[idx], R) =>
                  IF superClass[todoAncestors[idx].klass] \in {NoSymbol, Todo, R}
                  THEN /\ superClass' = [superClass EXCEPT ![todoAncestors[idx].klass] = R]
                       /\ errors' = errors
                  ELSE /\ superClass' = superClass
                       /\ errors' = Append(errors,
                                           [code |-> "RedefinitionOfParents",
                                            loc |-> LitInfo(todoAncestors[idx].ancestor).loc,
                                            what |-> todoAncestors[idx].klass,
                                            line |-> LitInfo(todoAncestors[idx].ancestor).loc])]_vars

\* class A < M, with M defined in the later file, has M as superclass;
\* class B < M, where B has the superclass A already, keeps A and has the
\* one RedefinitionOfParents error
C16_Witness ==
    /\ Returned
    /\ prog.supA = Const(<<"M">>) /\ superClass["A"] = "M"
    /\ prog.superB = "A" /\ prog.supB = Const(<<"M">>) /\ superClass["B"] = "A"
    /\ Cardinality(ErrorsWith("RedefinitionOfParents")) = 1

AnyPending ==
    \/ todo # <<>> \/ todoAncestors # <<>>
    \/ todoClassAliases # <<>> \/ todoTypeAliases # <<>>

\* C20: the loop runs at least once and goes on exactly while the last
\* iteration made progress and one of the four lists (constants, ancestors,
\* class aliases, type aliases) is non-empty: it exits only when the four
\* lists are empty or an iteration resolved nothing.
C20_LoopCondition ==
    /\ [](Returned => iters >= 1)
    /\ [][pc = "loop" /\ pc' # pc =>
              /\ pc' = "ancestors" <=> (progress /\ (first \/ AnyPending))
              /\ pc' = "failSort" <=> (~first /\ (~progress \/ ~AnyPending))]_vars

\* the loop has ended after an iteration that made progress, with every list
\* empty; the type alias X of Y was done in a later iteration than Y
C20_Witness ==
    /\ pc = "failSort" /\ progress /\ ~AnyPending /\ iters = 3
    /\ prog.rhsX = Const(<<"Y">>) /\ resultType["X"] = ParsedType("Y")

(***************************************************************************)
(* The entry points of Resolver.  Each is a fixed sequence of calls; rpc   *)
(* is the call the entry point is at.                                      *)
(***************************************************************************)
\* Resolver::run
run ==
    <<"resolveConstants", "finalizeAncestors", "resolveMixesInClassMethods",
      "finalizeSymbols", "resolveTypeParams", "resolveSigs", "sanityCheck">>

\* a runTreePasses that runs the two finalization steps as well
runTreePassesFinalizing == run

\* Resolver::runTreePasses
runTreePasses ==
    <<"resolveConstants", "resolveMixesInClassMethods", "resolveTypeParams",
      "resolveSigs", "sanityCheck">>

\* Resolver::runConstantResolution
runConstantResolution == <<"resolveConstants", "sanityCheck">>

Calls(e) ==
    CASE e = "run" -> run
      [] e = "runTreePasses" -> runTreePasses
      [] e = "runConstantResolution" -> runConstantResolution
      [] OTHER -> <<e>>

\* the pool resolveConstants gets: the caller's, or WorkerPool::create(0)
PoolOf(e) == IF e = "runTreePasses" THEN 0 ELSE MaxWorkers

AtCall(name) == rpc <= Len(Calls(entry)) /\ Calls(entry)[rpc] = name

CallReturns(name) ==
    /\ rpc' = rpc + 1
    /\ passes' = Append(passes, name)
    /\ UNCHANGED <<entry, poolSize>>

constantsVars == <<prog, poolVars, listVars, loopVars, hist>>
typeParamsVars == <<decls, memberType, tpos>>
sigsVars == <<body, sw, methods, fields>>
mixesVars == <<mixSends, classMethods, mpos>>

\* the entry of resolveConstants with a pool of the given size.  A pool of
\* size 0 has no thread: multiplexJob runs the lambda once, on the calling
\* thread, before the drain loop starts (wk[1] is that run)
EnterPool(files, size) ==
    /\ fileq = files
    /\ wk = [w \in Workers |-> IF w <= size \/ w = 1 THEN NewWorker
                               ELSE [NewWorker EXCEPT !.pc = "exit"]]
    /\ resultq = <<>>
    /\ popped = 0
    /\ trees = <<>>
    /\ todo = <<>>
    /\ todoAncestors = <<>>
    /\ todoClassAliases = <<>>
    /\ todoTypeAliases = <<>>
    /\ pc = "drain"
    /\ idx = 0
    /\ kept = <<>>
    /\ origSize = 0
    /\ progress = TRUE
    /\ first = TRUE
    /\ iters = 0

EntryReturned == rpc > Len(Calls(entry))

(***************************************************************************)
(* The type-parameter walk (ResolveTypeParamsWalk).  Two classes,          *)
(* Child < Parent, each may declare Elem; the walk visits the              *)
(* assignments of the trees in file order.                                 *)
(***************************************************************************)
TypeMembers == {"Parent::Elem", "Child::Elem"}

\* data->owner and owner->superClass() after constant resolution
ownerOf(sym) == IF sym = "Child::Elem" THEN "Child" ELSE "Parent"
superClassOf(klass) == IF klass = "Child" THEN "Parent" ELSE "Object"

\* core::Types
bottom == <<"bottom">>
top == <<"top">>
ClassType(sym) == <<"class", sym>>

\* core::Types::isSubType on these types: untyped is compatible both ways,
\* Integer < Numeric
isSubType(t1, t2) ==
    \/ t1 = UntypedType \/ t2 = UntypedType
    \/ t1 = bottom \/ t2 = top
    \/ t1 = t2
    \/ t1 = ClassType("Integer") /\ t2 = ClassType("Numeric")

\* type syntax: a resolved class constant or T.untyped
ClassLit(sym) == [node |-> "ConstantLit", symbol |-> sym]
TUntyped == [node |-> "Send", symbol |-> "untyped"]

\* TypeSyntax::getResultType on this type syntax
getTypeOf(expr) ==
    IF expr.node = "ConstantLit" THEN ClassType(expr.symbol) ELSE UntypedType

\* the arguments of type_member: a variance literal, a hash
Variance == [node |-> "Literal", keys |-> <<>>, values |-> <<>>]
Hash(keys, values) == [node |-> "Hash", keys |-> keys, values |-> values]
Key(name) == [isSymbol |-> TRUE, name |-> name]
StringKey(name) == [isSymbol |-> FALSE, name |-> name]

\* Elem = type_member(args) in klass, and the other assignments the walk sees
TypeMemberAssign(klass, args) ==
    [lhs |-> klass \o "::Elem", fun |-> "typeMember", args |-> args]
StaticFieldAssign(klass) == [lhs |-> klass \o "::Elem", fun |-> "none", args |-> <<>>]
TypeAliasAssign == [lhs |-> "X", fun |-> "typeAlias", args |-> <<>>]
LocalAssign == [lhs |-> NoSymbol, fun |-> "none", args |-> <<>>]

\* the symbols as the namer enters them: a type member is a LambdaParam with
\* untyped bounds
LambdaParam(lower, upper) ==
    [kind |-> "typeMember", lowerBound |-> lower, upperBound |-> upper]
NamerMember(ds, sym) ==
    IF \E i \in DOMAIN ds : ds[i].lhs = sym /\ ds[i].fun = "typeMember"
    THEN LambdaParam(UntypedType, UntypedType)
    ELSE IF \E i \in DOMAIN ds : ds[i].lhs = sym
    THEN [kind |-> "staticField", lowerBound |-> NullType, upperBound |-> NullType]
    ELSE [kind |-> "none", lowerBound |-> NullType, upperBound |-> NullType]

\* send->loc of the type_member send that declares sym, and the loc of sym:
\* Parent and Child are in files of their own
sendLoc(sym) == Loc(IF sym = "Parent::Elem" THEN 3 ELSE 4, 2, 3)
symLoc(sym) == Loc(IF sym = "Parent::Elem" THEN 3 ELSE 4, 1, 3)

isTypeMember(m, sym) == sym \in TypeMembers /\ m[sym].kind = "typeMember"

\* owner.superClass().findMember(name): the member of the direct superclass
findParentMember(m, sym) ==
    LET parentSym == superClassOf(ownerOf(sym)) \o "::Elem"
    IN  IF parentSym \in TypeMembers /\ m[parentSym].kind # "none"
        THEN parentSym ELSE NoSymbol

\* the hash the bounds are read from: args[0] of one, args[1] of two
boundsHash(args) ==
    LET arg == IF Len(args) = 1 THEN args[1]
               ELSE IF Len(args) = 2 THEN args[2]
               ELSE Variance
    IN  IF arg.node = "Hash" THEN arg ELSE Hash(<<>>, <<>>)

\* the loop over hash->keys from position i, on the bounds b
RECURSIVE readBounds(_, _, _)
readBounds(hash, i, b) ==
    IF i > Len(hash.keys) THEN b
    ELSE LET key == hash.keys[i]
             resTy == getTypeOf(hash.values[i])
             b2 == CASE key.isSymbol /\ key.name = "fixed" ->
                            [b EXCEPT !.lowerBound = resTy, !.upperBound = resTy]
                      [] key.isSymbol /\ key.name = "lower" ->
                            [b EXCEPT !.lowerBound = resTy]
                      [] key.isSymbol /\ key.name = "upper" ->
                            [b EXCEPT !.upperBound = resTy]
                      [] OTHER -> b
         IN  readBounds(hash, i + 1, b2)

\* ResolveTypeParamsWalk::postTransformAssign on T = [memberType, errors]
typeParamsAssign(T, asgn) ==
    LET sym == asgn.lhs
    IN  IF ~exists(sym) THEN T
        ELSE IF isTypeAlias(sym) THEN T
        ELSE IF ~isTypeMember(T.memberType, sym) THEN T
        ELSE
        LET parentMember == findParentMember(T.memberType, sym)
            hasParentType == exists(parentMember)
                                /\ isTypeMember(T.memberType, parentMember)
            T1 == IF exists(parentMember) /\ ~hasParentType
                  THEN beginErrorLine(T, sendLoc(sym), "ParentTypeBoundsMismatch",
                                      "not a type member", symLoc(parentMember))
                  ELSE T
            member == readBounds(boundsHash(asgn.args), 1, LambdaParam(bottom, top))
            T2 == [T1 EXCEPT !.memberType[sym] = member]
            parentType == T2.memberType[parentMember]
            T3 == IF hasParentType
                     /\ ~isSubType(parentType.lowerBound, member.lowerBound)
                  THEN beginError(T2, sendLoc(sym), "ParentTypeBoundsMismatch", "lower")
                  ELSE T2
            T4 == IF hasParentType
                     /\ ~isSubType(member.upperBound, parentType.upperBound)
                  THEN beginError(T3, sendLoc(sym), "ParentTypeBoundsMismatch", "upper")
                  ELSE T3
        IN  IF ~isSubType(member.lowerBound, member.upperBound)
            THEN beginError(T4, sendLoc(sym), "InvalidTypeMemberBounds", "bounds")
            ELSE T4

\* the bounds the programs declare
BoundTypes == {ClassLit("Integer"), ClassLit("String"), ClassLit("Numeric"), TUntyped}
BoundHashes ==
    {Hash(<<Key(k)>>, <<t>>) : k \in {"fixed", "lower", "upper"}, t \in BoundTypes}
    \cup {Hash(<<Key("lower"), Key("upper")>>, <<l, u>>) :
              l \in BoundTypes \ {TUntyped}, u \in BoundTypes \ {TUntyped}}
    \cup {Hash(<<Key("upper"), Key("fixed")>>, <<ClassLit("Numeric"), ClassLit("Integer")>>),
          Hash(<<StringKey("fixed")>>, <<ClassLit("Integer")>>)}
BoundArgs ==
    {<<>>, <<Variance>>}
    \cup {<<h>> : h \in BoundHashes}
    \cup {<<Variance, h>> : h \in {Hash(<<Key("fixed")>>, <<ClassLit("String")>>),
                                   Hash(<<Key("upper")>>, <<ClassLit("Numeric")>>)}}

\* the assignments of the trees in the order the walk visits them: Parent and
\* Child in either order, Parent's Elem a type member, a static field or absent
TypeParamPrograms ==
    {<<TypeMemberAssign("Parent", a), TypeMemberAssign("Child", b)>> :
         a \in BoundArgs, b \in BoundArgs}
    \cup {<<TypeMemberAssign("Child", b), TypeMemberAssign("Parent", a)>> :
              a \in BoundArgs, b \in BoundArgs}
    \cup {<<StaticFieldAssign("Parent"), TypeMemberAssign("Child", b)>> : b \in BoundArgs}
    \cup {<<TypeMemberAssign("Child", b), StaticFieldAssign("Parent")>> : b \in BoundArgs}
    \cup {<<LocalAssign, TypeAliasAssign, TypeMemberAssign("Child", b)>> : b \in BoundArgs}

\* resolveConstants returns to the entry point
ResolveConstantsReturns ==
    /\ AtCall("resolveConstants")
    /\ pc = "done"
    /\ CallReturns("resolveConstants")
    /\ UNCHANGED <<constantsVars, gsVars, typeParamsVars, sigsVars, mixesVars>>

\* finalizeAncestors(ctx.state): a symbol-table operation outside this file
FinalizeAncestors ==
    /\ AtCall("finalizeAncestors")
    /\ CallReturns("finalizeAncestors")
    /\ UNCHANGED <<constantsVars, gsVars, typeParamsVars, sigsVars, mixesVars>>

\* Symbol::isClassModule and Symbol::isClassClass
isClassModule(sym) == isModule(sym)
isClassClass(sym) == isClass(sym) /\ ~isModule(sym)

\* a send of the tree: its loc, ctx.owner at the send, whether the receiver
\* is self, the method called and the arguments
MixSend(id, ctxOwner, fun, args) ==
    [node |-> "Send", id |-> id, owner |-> ctxOwner, selfRecv |-> TRUE, fun |-> fun,
     args |-> args]
\* an argument that is no constant
StringLit == [node |-> "Literal", symbol |-> NoSymbol]

\* a processMixesInClassMethods that returns when the owner is no module
processMixesInClassMethodsInModule(W, send) ==
    LET reported(X, what) ==
            beginError(X, Loc(3, send.id, send.id + 1), "InvalidMixinDeclaration", what)
        W1 == IF ~isClass(send.owner) \/ ~isClassModule(send.owner)
              THEN reported(W, "not a module")
              ELSE W
        front == send.args[1]
        existing == W.classMethods[send.owner]
    IN  IF W1 # W THEN W1
        ELSE IF Len(send.args) # 1 THEN reported(W1, "arguments")
        ELSE IF front.node # "ConstantLit" \/ ~exists(front.symbol) \/ ~isClass(front.symbol)
        THEN reported(W1, "not resolvable")
        ELSE IF isClassClass(front.symbol) THEN reported(W1, "class")
        ELSE IF front.symbol = send.owner THEN reported(W1, "self")
        ELSE IF exists(existing) /\ existing # front.symbol THEN reported(W1, "redeclaring")
        ELSE [W1 EXCEPT !.classMethods[send.owner] = front.symbol]

\* processMixesInClassMethods(ctx, send); W holds the classMethods members
\* and the errors
processMixesInClassMethods(W, send) ==
    LET reported(X, what) ==
            beginError(X, Loc(3, send.id, send.id + 1), "InvalidMixinDeclaration", what)
        W1 == IF ~isClass(send.owner) \/ ~isClassModule(send.owner)
              THEN reported(W, "not a module")
              ELSE W
        front == send.args[1]
        existing == W.classMethods[send.owner]
    IN  IF Len(send.args) # 1 THEN reported(W1, "arguments")
        ELSE IF front.node # "ConstantLit" \/ ~exists(front.symbol) \/ ~isClass(front.symbol)
        THEN reported(W1, "not resolvable")
        ELSE IF isClassClass(front.symbol) THEN reported(W1, "class")
        ELSE IF front.symbol = send.owner THEN reported(W1, "self")
        ELSE IF exists(existing) /\ existing # front.symbol THEN reported(W1, "redeclaring")
        ELSE [W1 EXCEPT !.classMethods[send.owner] = front.symbol]

\* ResolveMixesInClassMethodsWalk::postTransformSend on the next send of the
\* tree: a mixes_in_class_methods send on self is processed and replaced by
\* an EmptyTree
MixesInClassMethodsSend ==
    /\ AtCall("resolveMixesInClassMethods")
    /\ mpos < Len(mixSends)
    /\ LET original == mixSends[mpos + 1]
       IN  IF original.selfRecv /\ original.fun = "mixes_in_class_methods"
           THEN \E W \in {processMixesInClassMethods(
                              [classMethods |-> classMethods, errors |-> errors], original)} :
                    /\ classMethods' = W.classMethods
                    /\ errors' = W.errors
                    /\ mixSends' = [mixSends EXCEPT ![mpos + 1] =
                                        [node |-> "EmptyTree", id |-> original.id]]
           ELSE UNCHANGED <<classMethods, errors, mixSends>>
    /\ mpos' = mpos + 1
    /\ UNCHANGED <<constantsVars, typeParamsVars, sigsVars, lits, patched, superClass, mixins,
                   resultType, sealedSubclasses, enforceFailed, entry, poolSize, rpc, passes>>

\* Resolver::resolveMixesInClassMethods: every tree was walked
ResolveMixesInClassMethods ==
    /\ AtCall("resolveMixesInClassMethods")
    /\ mpos = Len(mixSends)
    /\ CallReturns("resolveMixesInClassMethods")
    /\ UNCHANGED <<constantsVars, gsVars, typeParamsVars, sigsVars, mixesVars>>

\* finalizeSymbols(ctx.state): a symbol-table operation outside this file
FinalizeSymbols ==
    /\ AtCall("finalizeSymbols")
    /\ CallReturns("finalizeSymbols")
    /\ UNCHANGED <<constantsVars, gsVars, typeParamsVars, sigsVars, mixesVars>>

\* Resolver::resolveTypeParams: the walk visits the next assignment
ResolveTypeParamsStep ==
    /\ AtCall("resolveTypeParams")
    /\ tpos < Len(decls)
    /\ \E T \in {typeParamsAssign([memberType |-> memberType, errors |-> errors],
                                  decls[tpos + 1])} :
           /\ memberType' = T.memberType
           /\ errors' = T.errors
    /\ tpos' = tpos + 1
    /\ UNCHANGED <<constantsVars, lits, patched, superClass, mixins, resultType,
                   sealedSubclasses, enforceFailed, entry, poolSize, rpc, passes, decls,
                   sigsVars, mixesVars>>

\* Resolver::resolveTypeParams: every tree was walked
ResolveTypeParamsReturns ==
    /\ AtCall("resolveTypeParams")
    /\ tpos = Len(decls)
    /\ CallReturns("resolveTypeParams")
    /\ UNCHANGED <<constantsVars, gsVars, typeParamsVars, sigsVars, mixesVars>>

\* Resolver::sanityCheck: the walk of a debug build holds ENFORCEs only
SanityCheck ==
    /\ AtCall("sanityCheck")
    /\ CallReturns("sanityCheck")
    /\ UNCHANGED <<constantsVars, gsVars, typeParamsVars, sigsVars, mixesVars>>

\* resolveConstants has returned the trees of the program: the driver's and
\* the workers' state, the trees and the symbol table it leaves
ConstantsResolved ==
    \E R \in {serialReturn} :
        /\ fileq = <<>>
        /\ wk = [w \in Workers |-> [NewWorker EXCEPT !.pc = "exit"]]
        /\ resultq = <<>>
        /\ popped = NumFiles
        /\ trees = R.trees
        /\ todo = R.todo
        /\ todoAncestors = R.todoAncestors
        /\ todoClassAliases = R.todoClassAliases
        /\ todoTypeAliases = R.todoTypeAliases
        /\ pc = R.pc
        /\ idx = R.idx
        /\ kept = R.kept
        /\ origSize = R.origSize
        /\ progress = R.progress
        /\ first = R.first
        /\ iters = R.iters
        /\ lits = R.g.lits
        /\ patched = R.g.patched
        /\ superClass = R.g.superClass
        /\ mixins = R.g.mixins
        /\ resultType = R.g.resultType
        /\ sealedSubclasses = R.g.sealedSubclasses
        /\ errors = R.g.errors
        /\ enforceFailed = R.g.enforceFailed
        /\ hist = [njobs |-> 0, preErrors |-> 0, iterJobs |-> 0, run |-> 1, snap |-> R.g,
                   ancestors |-> <<>>]

\* Resolver::resolveTypeParams called on trees whose constants are resolved
InitTypeParams ==
    /\ prog = Base
    /\ ConstantsResolved
    /\ entry = "resolveTypeParams"
    /\ poolSize = 0
    /\ rpc = 1
    /\ passes = <<>>
    /\ decls \in TypeParamPrograms
    /\ memberType = [sym \in TypeMembers |-> NamerMember(decls, sym)]
    /\ tpos = 0
    /\ NoMethods
    /\ NoMixes

NextTypeParams == ResolveTypeParamsStep \/ ResolveTypeParamsReturns

SpecTypeParams == InitTypeParams /\ [][NextTypeParams]_vars

(***************************************************************************)
(* The signatures walk (ResolveSignaturesWalk).  The tree is a file: the   *)
(* root ClassDef around class A, whose body holds sigs, method             *)
(* definitions, sends with blocks, nested classes and assignments to       *)
(* instance and class variables.                                           *)
(***************************************************************************)
\* a statement of the tree; id is its position in the file (its loc)
Stat(stat, id) ==
    [stat |-> stat, id |-> id, params |-> <<>>, seen |-> {}, method |-> 0,
     sym |-> NoSymbol, body |-> <<>>, kind |-> "none", name |-> "none",
     fun |-> "none", type |-> TUntyped]

\* sig {params(p1: Integer, ...).returns(String)}: the names in params and
\* the builder methods seen
SigStat(id, params, seen) == [Stat("sig", id) EXCEPT !.params = params, !.seen = seen]
\* def of the method symbol the namer entered as methods[method]
DefStat(id, method, stats) == [Stat("def", id) EXCEPT !.method = method, !.body = stats]
\* a send with a block: foo do ... end
BlockStat(id, stats) == [Stat("block", id) EXCEPT !.body = stats]
ClassStat(id, sym, stats) == [Stat("class", id) EXCEPT !.sym = sym, !.body = stats]
\* @name = T.fun(e, type), @@name = ..., or a local on the left (kind "Local")
DeclStat(id, kind, name, fun, type) ==
    [Stat("decl", id) EXCEPT !.kind = kind, !.name = name, !.fun = fun, !.type = type]
OtherStat(id) == Stat("other", id)
EmptyStat(id) == Stat("empty", id)

\* ArgInfo of a method symbol
ArgInfo(name, isKeyword, isDefault) ==
    [name |-> name, type |-> NullType, isKeyword |-> isKeyword, isDefault |-> isDefault,
     loc |-> 0]
Arg(name) == ArgInfo(name, FALSE, FALSE)
\* core::Names::blkArg(), the name of the synthesized block argument
blkArg == "<blk>"

\* a method symbol
Method(name, ctxOwner, isSelf, arguments) ==
    [name |-> name, owner |-> ctxOwner, isSelf |-> isSelf, arguments |-> arguments,
     resultType |-> NullType, flags |-> {}, loc |-> 0]

\* ctx.owner as TreeMap sets it: a class, or the method whose body is walked
ClassOwner(sym) == [isClass |-> TRUE, class |-> sym, method |-> 0]
MethodOwner(m) == [isClass |-> FALSE, class |-> NoSymbol, method |-> m]

\* the calls TreeMap::apply makes on the walk for a list of statements, in
\* order; each carries ctx.owner and, for the properties, the number of blocks
\* around the node inside its innermost ClassDef or MethodDef
Event(ev, s, ctxOwner, blocks) == [ev |-> ev, s |-> s, owner |-> ctxOwner, blocks |-> blocks]

RECURSIVE TreeEvents(_, _, _)
RECURSIVE StatEvents(_, _, _)
\* a body of two statements or more is an InsSeq
BodyEvents(stats, ctxOwner, blocks) ==
    TreeEvents(stats, ctxOwner, blocks)
        \o (IF Len(stats) >= 2
            THEN <<Event("postInsSeq", BlockStat(0, stats), ctxOwner, blocks)>>
            ELSE <<>>)

StatEvents(s, ctxOwner, blocks) ==
    CASE s.stat = "class" ->
             <<Event("preClassDef", s, ctxOwner, blocks)>>
                 \o TreeEvents(s.body, ClassOwner(s.sym), 0)
                 \o <<Event("postClassDef", s, ctxOwner, blocks)>>
      [] s.stat = "def" ->
             <<Event("preMethodDef", s, ctxOwner, blocks)>>
                 \o BodyEvents(s.body, MethodOwner(s.method), 0)
                 \o <<Event("postMethodDef", s, ctxOwner, blocks)>>
      [] s.stat \in {"block", "sig"} ->
             <<Event("preBlock", s, ctxOwner, blocks)>>
                 \o BodyEvents(s.body, ctxOwner, blocks + 1)
                 \o <<Event("postBlock", s, ctxOwner, blocks)>>
      [] s.stat = "decl" -> <<Event("postAssign", s, ctxOwner, blocks)>>
      [] OTHER -> <<>>

TreeEvents(stats, ctxOwner, blocks) ==
    IF stats = <<>> THEN <<>>
    ELSE StatEvents(Head(stats), ctxOwner, blocks) \o TreeEvents(Tail(stats), ctxOwner, blocks)

\* the walk of the file: the root ClassDef and its statements
FileTreeEvents(b) == StatEvents(ClassStat(0, "root", b.stats), ClassOwner("root"), 0)

\* Symbol data of ctx.owner
ownerIsClass(o) == o.isClass
ownerIsMethod(o) == ~o.isClass
ownerName(ms, o) == IF o.isClass THEN o.class ELSE ms[o.method].name
\* ctx.owner.data->owner.data->isSingletonClass
ownerOwnerIsSingleton(ms, o) == ~o.isClass /\ ms[o.method].isSelf
singletonClass(klass) == "<Class:" \o klass \o ">"
\* ctx.owner.data->enclosingClass
enclosingClassOf(ms, o) ==
    IF o.isClass THEN o.class
    ELSE IF ms[o.method].isSelf THEN singletonClass(ms[o.method].owner)
    ELSE ms[o.method].owner
\* ctx.selfClass(): in a class body self is the class, an instance of its
\* singleton class; in a method it is an instance of the method's owner
selfClass(ms, o) ==
    IF o.isClass THEN singletonClass(o.class) ELSE enclosingClassOf(ms, o)

\* the loc of the statement with this id
statLoc(id) == Loc(3, id, id + 1)

\* the walk's state as the callbacks read and write it
WalkState ==
    [nestedBlockCounts |-> sw.nestedBlockCounts, lastSigs |-> sw.lastSigs,
     erased |-> sw.erased, injected |-> sw.injected, emptied |-> sw.emptied,
     methods |-> methods, fields |-> fields, errors |-> errors]

back(counts) == counts[Len(counts)]
emplace_back(counts, n) == Append(counts, n)
pop_back(counts) == SubSeq(counts, 1, Len(counts) - 1)
\* nestedBlockCounts.back() += n
addToBack(counts, n) == [counts EXCEPT ![Len(counts)] = @ + n]

\* the right-hand side after postTransformSend: T.let, T.assert_type and
\* T.cast with two arguments become a Cast of the type their second argument
\* denotes
postTransformSend(s) ==
    IF s.fun \in {"let", "assertType", "cast"}
    THEN [isCast |-> TRUE, cast |-> s.fun, type |-> getTypeOf(s.type)]
    ELSE [isCast |-> FALSE, cast |-> s.fun, type |-> NullType]

\* scope.data->findMember(name) among the fields: its position, 0 if none
findField(fs, scope, name) ==
    IF \E i \in DOMAIN fs : fs[i].scope = scope /\ fs[i].name = name
    THEN CHOOSE i \in DOMAIN fs : fs[i].scope = scope /\ fs[i].name = name
    ELSE 0

\* core::Types::equiv on the types of the programs
equiv(t1, t2) == t1 = t2

\* a handleDeclaration that gives the variable the type of the declaration
\* it rejects
handleDeclarationRetyped(W, ctxOwner, s) ==
    LET cast == postTransformSend(s)
        uidLoc == statLoc(s.id)
    IN  IF s.kind \notin {"Instance", "Class"} THEN [W |-> W, handled |-> FALSE]
        ELSE IF ~cast.isCast THEN [W |-> W, handled |-> FALSE]
        ELSE
        LET W1 == IF cast.cast # "let"
                  THEN beginError(W, uidLoc, "ConstantAssertType", s.name)
                  ELSE W
            W2 == IF s.kind = "Class"
                  THEN IF ~ownerIsClass(ctxOwner)
                       THEN beginError(W1, uidLoc, "InvalidDeclareVariables", "class scope")
                       ELSE W1
                  ELSE IF back(W.nestedBlockCounts) = 0 /\ ownerIsClass(ctxOwner)
                  THEN W1
                  ELSE IF back(W.nestedBlockCounts) = 0
                          /\ ownerName(W.methods, ctxOwner) = "initialize"
                  THEN W1
                  ELSE IF ownerIsMethod(ctxOwner) /\ ownerOwnerIsSingleton(W.methods, ctxOwner)
                  THEN beginError(W1, uidLoc, "InvalidDeclareVariables", "singleton")
                  ELSE beginError(W1, uidLoc, "InvalidDeclareVariables", "initialize")
            scope == IF s.kind = "Class" THEN enclosingClassOf(W.methods, ctxOwner)
                     ELSE selfClass(W.methods, ctxOwner)
            prior == findField(W.fields, scope, s.name)
        IN  IF prior # 0
            THEN IF equiv(W.fields[prior].resultType, cast.type)
                 THEN [W |-> W2, handled |-> TRUE]
                 ELSE [W |-> [beginErrorLine(W2, uidLoc, "DuplicateVariableDeclaration",
                                             s.name, W.fields[prior].loc)
                                 EXCEPT !.fields[prior].resultType = cast.type],
                       handled |-> FALSE]
            ELSE [W |-> [W2 EXCEPT !.fields =
                            Append(@, [scope |-> scope, name |-> s.name,
                                       isStatic |-> s.kind = "Class",
                                       resultType |-> cast.type, loc |-> uidLoc])],
                  handled |-> TRUE]

\* handleDeclaration(ctx, asgn): the state after it and what it returns
handleDeclaration(W, ctxOwner, s) ==
    LET cast == postTransformSend(s)
        uidLoc == statLoc(s.id)
    IN  IF s.kind \notin {"Instance", "Class"} THEN [W |-> W, handled |-> FALSE]
        ELSE IF ~cast.isCast THEN [W |-> W, handled |-> FALSE]
        ELSE
        LET W1 == IF cast.cast # "let"
                  THEN beginError(W, uidLoc, "ConstantAssertType", s.name)
                  ELSE W
            W2 == IF s.kind = "Class"
                  THEN IF ~ownerIsClass(ctxOwner)
                       THEN beginError(W1, uidLoc, "InvalidDeclareVariables", "class scope")
                       ELSE W1
                  ELSE IF back(W.nestedBlockCounts) = 0 /\ ownerIsClass(ctxOwner)
                  THEN W1
                  ELSE IF back(W.nestedBlockCounts) = 0
                          /\ ownerName(W.methods, ctxOwner) = "initialize"
                  THEN W1
                  ELSE IF ownerIsMethod(ctxOwner) /\ ownerOwnerIsSingleton(W.methods, ctxOwner)
                  THEN beginError(W1, uidLoc, "InvalidDeclareVariables", "singleton")
                  ELSE beginError(W1, uidLoc, "InvalidDeclareVariables", "initialize")
            scope == IF s.kind = "Class" THEN enclosingClassOf(W.methods, ctxOwner)
                     ELSE selfClass(W.methods, ctxOwner)
            prior == findField(W.fields, scope, s.name)
        IN  IF prior # 0
            THEN IF equiv(W.fields[prior].resultType, cast.type)
                 THEN [W |-> W2, handled |-> TRUE]
                 ELSE [W |-> beginErrorLine(W2, uidLoc, "DuplicateVariableDeclaration",
                                            s.name, W.fields[prior].loc),
                       handled |-> FALSE]
            ELSE [W |-> [W2 EXCEPT !.fields =
                            Append(@, [scope |-> scope, name |-> s.name,
                                       isStatic |-> s.kind = "Class",
                                       resultType |-> cast.type, loc |-> uidLoc])],
                  handled |-> TRUE]

\* the callbacks of the walk other than postTransformClassDef and
\* postTransformInsSeq, on the event e.  The assignments of the programs have
\* an identifier on the left: after handleDeclaration, postTransformAssign
\* finds no ConstantLit and returns.
walkCallback(W, e) ==
    CASE e.ev \in {"preClassDef", "preMethodDef"} ->
             [W EXCEPT !.nestedBlockCounts = emplace_back(@, 0)]
      [] e.ev = "postMethodDef" -> [W EXCEPT !.nestedBlockCounts = pop_back(@)]
      [] e.ev = "preBlock" -> [W EXCEPT !.nestedBlockCounts = addToBack(@, 1)]
      [] e.ev = "postBlock" -> [W EXCEPT !.nestedBlockCounts = addToBack(@, -1)]
      [] e.ev = "postAssign" -> handleDeclaration(W, e.owner, e.s).W
      [] OTHER -> W

\* TypeSyntax::parseSig (outside this file) on a sig of the programs: every
\* parameter is declared Integer, returns declares String
VoidType == <<"void">>
parseSig(s) ==
    [argTypes |-> [i \in DOMAIN s.params |->
                       [name |-> s.params[i], type |-> ClassType("Integer"), loc |-> s.id]],
     seen |-> s.seen \cup (IF s.params # <<>> THEN {"params"} ELSE {}),
     returns |-> IF "returns" \in s.seen THEN ClassType("String")
                 ELSE IF "void" \in s.seen THEN VoidType
                 ELSE NullType]

\* processStatement on a sig send
processSig(W, s, permitOverloadDefinitions) ==
    LET W1 == IF W.lastSigs # <<>> /\ ~permitOverloadDefinitions
              THEN beginErrorLine(W, statLoc(W.lastSigs[1].id), "OverloadNotAllowed",
                                  "unused", statLoc(s.id))
              ELSE W
    IN  [W1 EXCEPT !.lastSigs = Append(@, s)]

\* every argument position of the definition
argsToKeepAll(args, sig) == [i \in DOMAIN args |-> i]

\* argsToKeep: the positions of mdef->args whose name the sig declares
argsToKeep(args, sig) ==
    SelectSeq([i \in DOMAIN args |-> i],
              LAMBDA i : \E j \in DOMAIN sig.argTypes : sig.argTypes[j].name = args[i].name)

\* GlobalState::mangleRenameSymbol (outside this file): the symbol gets a
\* unique name derived from its name
mangleRenameSymbol(W, m, originalName) ==
    [W EXCEPT !.methods[m].name = originalName \o "$mangle_renamed"]

\* GlobalState::enterNewMethodOverload (outside this file): a new method
\* symbol on the owner of the original, named originalName for num = 0 and
\* with a unique overload name otherwise, with copies of the kept arguments
enterNewMethodOverload(W, loc, original, originalName, num, keep) ==
    LET orig == W.methods[original]
    IN  [W EXCEPT !.methods =
            Append(@, [name |-> IF num = 0 THEN originalName
                                ELSE originalName \o "$overload" \o ToString(num),
                       owner |-> orig.owner, isSelf |-> orig.isSelf,
                       arguments |-> [k \in DOMAIN keep |-> orig.arguments[keep[k]]],
                       resultType |-> NullType, flags |-> {},
                       loc |-> IF num = 0 THEN orig.loc ELSE loc])]

\* getArgLocal: the name of the definition's argument that stands for the
\* symbol's argument at pos
getArgLocal(ms, argSym, mdef, mdefArgs, pos, isOverloaded) ==
    IF ~isOverloaded THEN mdefArgs[pos].name
    ELSE LET arguments == ms[mdef.method].arguments
             realPos == CHOOSE p \in DOMAIN arguments : arguments[p].name = argSym.name
         IN  mdefArgs[realPos].name

\* position of the first spec of argTypes with this name, 0 if none
findSpec(argTypes, name) ==
    IF \E j \in DOMAIN argTypes : argTypes[j].name = name
    THEN CHOOSE j \in DOMAIN argTypes :
             /\ argTypes[j].name = name
             /\ \A k \in 1..(j - 1) : argTypes[k].name # name
    ELSE 0

eraseAt(seq, j) == SubSeq(seq, 1, j - 1) \o SubSeq(seq, j + 1, Len(seq))

\* the set flags of fillInInfoFromSig
sigFlags == {"abstract", "implementation", "incompatibleOverride", "overridable",
             "override", "final"}

\* the loop of fillInInfoFromSig over the arguments of the method, from
\* position i; L is the state, the specs not yet matched, seenOptional and
\* defParams; c holds the arguments of fillInInfoFromSig
RECURSIVE fillInArguments(_, _, _)
fillInArguments(L, c, i) ==
    IF i > Len(L.W.methods[c.method].arguments) THEN L
    ELSE
    LET arg == L.W.methods[c.method].arguments[i]
        treeArgName == getArgLocal(L.W.methods, arg, c.mdef, c.mdefArgs, i, c.isOverloaded)
        isKwd == arg.isKeyword
        isReq == ~arg.isDefault
        ordered(X) ==
            IF isKwd /\ ~isReq THEN [X EXCEPT !.seenOptional = TRUE]
            ELSE IF isKwd /\ X.seenOptional /\ isReq
            THEN [X EXCEPT !.W = beginErrorLine(@, statLoc(arg.loc), "BadParameterOrdering",
                                                treeArgName, statLoc(c.exprLoc))]
            ELSE X
        named(X) == [X EXCEPT !.defParams = Append(@, treeArgName)]
        untypedArg(X) == [X EXCEPT !.W.methods[c.method].arguments[i].type = UntypedType]
        typedBy(X, spec) ==
            IF spec # 0
            THEN [X EXCEPT !.W.methods[c.method].arguments[i].type = X.argTypes[spec].type,
                           !.W.methods[c.method].arguments[i].loc = X.argTypes[spec].loc,
                           !.argTypes = eraseAt(@, spec)]
            ELSE IF arg.type = NullType
            THEN IF /\ ~c.isOverloaded
                    /\ arg.name # blkArg
                    /\ c.sig.seen \cap {"params", "returns", "void"} # {}
                 THEN [untypedArg(X) EXCEPT
                          !.W = beginErrorLine(@, statLoc(arg.loc), "InvalidMethodSignature",
                                               "type not specified", statLoc(c.exprLoc))]
                 ELSE untypedArg(X)
            ELSE X
        typed(X) == typedBy(X, findSpec(X.argTypes, treeArgName))
        keywordChecked(X) ==
            IF c.isOverloaded /\ arg.isKeyword
            THEN [X EXCEPT !.W = beginError(@, statLoc(X.W.methods[c.method].arguments[i].loc),
                                            "InvalidMethodSignature", "keyword in overload")]
            ELSE X
    IN  fillInArguments(keywordChecked(typed(named(ordered(L)))), c, i + 1)

\* an error for every spec left in argTypes
RECURSIVE unknownArguments(_, _)
unknownArguments(W, argTypes) ==
    IF argTypes = <<>> THEN W
    ELSE unknownArguments(beginError(W, statLoc(Head(argTypes).loc), "InvalidMethodSignature",
                                     "unknown argument"),
                          Tail(argTypes))

\* the check of the parameter order of the sig against the definition
RECURSIVE parameterOrdering(_, _, _, _)
parameterOrdering(W, c, defParams, j) ==
    IF j > Len(c.sig.argTypes) THEN W
    ELSE parameterOrdering(
             IF c.sig.argTypes[j].name # defParams[j]
             THEN beginErrorLine(W, statLoc(c.mdef.id), "BadParameterOrdering", defParams[j],
                                 statLoc(c.sig.argTypes[j].loc))
             ELSE W,
             c, defParams, j + 1)

\* fillInInfoFromSig(ctx, method, exprLoc, sig, isOverloaded, mdef); the sigs
\* of the programs have no type arguments and no bind
fillInInfoFromSig(W, c) ==
    LET seen == c.sig.seen
        returnChecked(X) ==
            IF "returns" \notin seen /\ "void" \notin seen
            THEN beginError(X, statLoc(c.exprLoc), "InvalidMethodSignature", "no return type")
            ELSE X
        voidChecked(X) ==
            IF "returns" \in seen /\ "void" \in seen
            THEN beginError(X, statLoc(c.exprLoc), "InvalidMethodSignature", "returns and void")
            ELSE X
        flagged(X) ==
            [X EXCEPT !.methods[c.method].flags =
                          ((@ \cup (seen \cap sigFlags)) \ {"generatedSig"})
                              \cup (seen \cap {"generatedSig"}),
                      !.methods[c.method].resultType = c.sig.returns]
        arguments(X) ==
            fillInArguments([W |-> X, argTypes |-> c.sig.argTypes, seenOptional |-> FALSE,
                             defParams |-> <<>>], c, 1)
        ordering(L) ==
            IF L.argTypes = <<>>
            THEN parameterOrdering(L.W, c, L.defParams, 1)
            ELSE unknownArguments(L.W, L.argTypes)
    IN  ordering(arguments(flagged(voidChecked(returnChecked(W)))))

\* the while loop of processStatement over lastSigs, from sig i (counted
\* from 0 as in the source)
RECURSIVE applySigs(_, _, _, _, _, _)
applySigs(W, mdef, mdefArgs, isOverloaded, originalName, i) ==
    IF i >= Len(W.lastSigs) THEN W
    ELSE
    LET sigSend == W.lastSigs[i + 1]
        sig == parseSig(sigSend)
        entered(X) ==
            IF isOverloaded
            THEN enterNewMethodOverload(X, sigSend.id, mdef.method, originalName, i,
                                        argsToKeep(mdefArgs, sig))
            ELSE X
        overloadSym(X) == IF isOverloaded THEN Len(X.methods) ELSE mdef.method
        marked(X) ==
            IF isOverloaded /\ i # Len(X.lastSigs) - 1
            THEN [X EXCEPT !.methods[overloadSym(X)].flags = @ \cup {"overloaded"}]
            ELSE X
        filled(X) ==
            fillInInfoFromSig(X, [method |-> overloadSym(X), exprLoc |-> sigSend.id,
                                  sig |-> sig, isOverloaded |-> isOverloaded,
                                  mdef |-> mdef, mdefArgs |-> mdefArgs])
    IN  applySigs(filled(marked(entered(W))), mdef, mdefArgs, isOverloaded, originalName, i + 1)

\* injectOptionalArgs: a T.let of the default is put in front of the body for
\* every optional argument, unless the method is abstract
injectOptionalArgs(W, mdef, mdefArgs) ==
    IF "abstract" \in W.methods[mdef.method].flags THEN W
    ELSE IF \E i \in DOMAIN mdefArgs : mdefArgs[i].isDefault
    THEN [W EXCEPT !.injected = @ \cup {mdef.id}]
    ELSE W

\* processStatement on a MethodDef; b is the file
processMethodDef(W, mdef, b) ==
    LET mdefArgs == b.methods[mdef.method].arguments
        loc == W.lastSigs[1].id
        isOverloaded == Len(W.lastSigs) > 1 /\ b.permitOverloads
        originalName == W.methods[mdef.method].name
        sigilChecked(X) ==
            IF b.sigil = "none"
            THEN beginError(X, statLoc(loc), "SigInFileWithoutSigil", "sig")
            ELSE X
        renamed(X) ==
            IF isOverloaded THEN mangleRenameSymbol(X, mdef.method, originalName) ELSE X
        injected(X) == IF ~isOverloaded THEN injectOptionalArgs(X, mdef, mdefArgs) ELSE X
        cleared(X) == [X EXCEPT !.lastSigs = <<>>]
        withSigs(X) ==
            IF X.lastSigs # <<>>
            THEN cleared(injected(applySigs(renamed(sigilChecked(X)), mdef, mdefArgs,
                                            isOverloaded, originalName, 0)))
            ELSE X
        isAbstract(X) == "abstract" \in X.methods[mdef.method].flags
        bodyChecked(X) ==
            IF isAbstract(X) /\ mdef.body # <<>>
            THEN [beginError(X, statLoc(mdef.id), "AbstractMethodWithBody", "body")
                     EXCEPT !.emptied = @ \cup {mdef.id}]
            ELSE X
        classChecked(X) ==
            IF isAbstract(X)
            THEN IF ~b.abstract
                 THEN beginError(bodyChecked(X), statLoc(mdef.id),
                                 "AbstractMethodOutsideAbstract", "abstract!")
                 ELSE bodyChecked(X)
            ELSE IF b.interface
            THEN beginError(X, statLoc(mdef.id), "ConcreteMethodInInterface", "interface")
            ELSE X
    IN  classChecked(withSigs(W))

\* processStatement(ctx, stat, lastSigs)
processStatement(W, stat, b) ==
    CASE stat.stat = "sig" -> processSig(W, stat, b.permitOverloads)
      [] stat.stat = "def" -> processMethodDef(W, stat, b)
      [] stat.stat = "empty" -> [W EXCEPT !.erased = @ \cup {stat.id}]
      [] OTHER -> W

\* a processLeftoverSigs with an error for every sig left over
RECURSIVE reportLeftoverSigs(_, _)
reportLeftoverSigs(W, sigs) ==
    IF sigs = <<>> THEN W
    ELSE reportLeftoverSigs(beginError(W, statLoc(Head(sigs).id), "InvalidMethodSignature",
                                       "no method def"),
                            Tail(sigs))
processLeftoverSigsEach(W) == [reportLeftoverSigs(W, W.lastSigs) EXCEPT !.lastSigs = <<>>]

\* processLeftoverSigs(ctx, lastSigs)
processLeftoverSigs(W) ==
    IF W.lastSigs # <<>>
    THEN [beginError(W, statLoc(W.lastSigs[1].id), "InvalidMethodSignature", "no method def")
             EXCEPT !.lastSigs = <<>>]
    ELSE W

\* the statements processInSeq processes: seq->stats, and seq->expr unless
\* it is an EmptyTree
inSeqStatements(stats) ==
    IF stats[Len(stats)].stat = "empty" THEN SubSeq(stats, 1, Len(stats) - 1) ELSE stats

SetWalk(W, position) ==
    /\ sw' = [position EXCEPT !.nestedBlockCounts = W.nestedBlockCounts,
                              !.lastSigs = W.lastSigs, !.erased = W.erased,
                              !.injected = W.injected, !.emptied = W.emptied]
    /\ methods' = W.methods
    /\ fields' = W.fields
    /\ errors' = W.errors

sigsUnchanged ==
    <<constantsVars, typeParamsVars, lits, patched, superClass, mixins, resultType,
      sealedSubclasses, enforceFailed, entry, poolSize, rpc, passes, body, mixesVars>>

AtEvent == sw.mode = "walk" /\ sw.epos < Len(FileTreeEvents(body))
NextEvent == FileTreeEvents(body)[sw.epos + 1]

\* TreeMap::apply calls a callback of the walk
SigsCallback ==
    /\ AtCall("resolveSigs")
    /\ AtEvent
    /\ NextEvent.ev \notin {"postClassDef", "postInsSeq"}
    /\ \E W \in {walkCallback(WalkState, NextEvent)} :
           SetWalk(W, [sw EXCEPT !.epos = @ + 1])
    /\ UNCHANGED sigsUnchanged

\* postTransformClassDef and postTransformInsSeq: processClassBody and
\* processInSeq start on the statements with an empty lastSigs
SigsProcessBody ==
    /\ AtCall("resolveSigs")
    /\ AtEvent
    /\ NextEvent.ev \in {"postClassDef", "postInsSeq"}
    /\ sw' = [sw EXCEPT !.epos = @ + 1,
                        !.mode = IF NextEvent.ev = "postClassDef" THEN "processClassBody"
                                 ELSE "processInSeq",
                        !.seq = IF NextEvent.ev = "postClassDef" THEN NextEvent.s.body
                                ELSE inSeqStatements(NextEvent.s.body),
                        !.spos = 0,
                        !.lastSigs = <<>>]
    /\ UNCHANGED <<sigsUnchanged, methods, fields, errors>>

\* the loop of processClassBody and processInSeq: processStatement
SigsProcessStatement ==
    /\ AtCall("resolveSigs")
    /\ sw.mode # "walk"
    /\ sw.spos < Len(sw.seq)
    /\ \E W \in {processStatement(WalkState, sw.seq[sw.spos + 1], body)} :
           SetWalk(W, [sw EXCEPT !.spos = @ + 1])
    /\ UNCHANGED sigsUnchanged

\* the end of processClassBody and processInSeq: processLeftoverSigs, and the
\* erase of the statements that were reset
SigsProcessLeftoverSigs ==
    /\ AtCall("resolveSigs")
    /\ sw.mode # "walk"
    /\ sw.spos = Len(sw.seq)
    /\ \E W \in {processLeftoverSigs(WalkState)} :
           SetWalk(W, [sw EXCEPT !.mode = "walk", !.seq = <<>>, !.spos = 0])
    /\ UNCHANGED sigsUnchanged

\* Resolver::resolveSigs: every tree was walked
ResolveSigsReturns ==
    /\ AtCall("resolveSigs")
    /\ sw.mode = "walk"
    /\ sw.epos = Len(FileTreeEvents(body))
    /\ CallReturns("resolveSigs")
    /\ UNCHANGED <<constantsVars, gsVars, typeParamsVars, sigsVars, mixesVars>>

NextSigs ==
    \/ SigsCallback \/ SigsProcessBody \/ SigsProcessStatement
    \/ SigsProcessLeftoverSigs \/ ResolveSigsReturns

\* The files the signatures walk is run on: class A in a file of its own.
File(stats, ms, permitOverloads) ==
    [stats |-> <<ClassStat(90, "A", stats)>>, methods |-> ms,
     permitOverloads |-> permitOverloads, sigil |-> "true", abstract |-> FALSE,
     interface |-> FALSE]

\* def foo(a, b)
Foo == Method("foo", "A", FALSE, <<Arg("a"), Arg("b")>>)
\* def kw(a: 1, b:)
Kw == Method("kw", "A", FALSE, <<ArgInfo("a", TRUE, TRUE), ArgInfo("b", TRUE, FALSE)>>)

\* def blk(a, &<blk>): the block argument is synthesized
Blk == Method("blk", "A", FALSE, <<Arg("a"), Arg(blkArg)>>)

ParamLists == {<<>>, <<"a">>, <<"b">>, <<"a", "b">>, <<"b", "a">>, <<"a", "c">>}

\* the lists of up to n sigs with these params, the i-th sig at loc i
RECURSIVE SigLists(_)
SigLists(n) ==
    IF n = 0 THEN {<<>>}
    ELSE LET shorter == SigLists(n - 1)
         IN  shorter \cup {Append(l, SigStat(Len(l) + 1, p, {"returns"})) :
                               l \in {x \in shorter : Len(x) = n - 1}, p \in ParamLists}

\* up to MaxSigs sigs in front of def foo(a, b)
OverloadPrograms ==
    {File(sigs \o <<DefStat(10, 1, <<>>)>>, <<Foo>>, permit) :
         sigs \in SigLists(MaxSigs), permit \in BOOLEAN}

\* one sig with every combination of returns, void and abstract, on a file
\* with or without a sigil, in a class that is abstract or not
SeenPrograms ==
    {[File(<<SigStat(1, p, seen), DefStat(10, 1, stats)>>, <<Foo>>, FALSE)
         EXCEPT !.sigil = sigil, !.abstract = abstract, !.interface = interface] :
         p \in {<<>>, <<"a", "b">>}, seen \in SUBSET {"returns", "void", "abstract"},
         stats \in {<<>>, <<OtherStat(11)>>}, sigil \in {"true", "none"},
         abstract \in BOOLEAN, interface \in {FALSE}}
    \cup {[File(<<DefStat(10, 1, <<>>)>>, <<Foo>>, FALSE) EXCEPT !.interface = TRUE]}

\* sigs apart from their definition, left over, in front of a second
\* definition, on keyword arguments, in the body of a block, and two left
\* over after the definition
SigPlacementPrograms ==
    {File(stats, <<Foo, Kw>>, permit) :
         stats \in {<<SigStat(1, <<"a">>, {"returns"}), OtherStat(11),
                      SigStat(2, <<"b">>, {"returns"}), EmptyStat(12), DefStat(10, 1, <<>>)>>,
                    <<SigStat(1, <<"a", "b">>, {"returns"}), DefStat(10, 1, <<>>),
                      SigStat(2, <<"a">>, {"void"})>>,
                    <<SigStat(1, <<"a">>, {"returns"}), SigStat(2, <<"b">>, {"returns"}),
                      DefStat(10, 1, <<>>), DefStat(13, 2, <<>>)>>,
                    <<SigStat(1, <<"b", "a">>, {"returns"}), DefStat(13, 2, <<>>)>>,
                    <<SigStat(1, <<"b">>, {"returns"}), SigStat(2, <<"a">>, {"void"}),
                      DefStat(13, 2, <<>>)>>,
                    <<BlockStat(14, <<SigStat(1, <<"a">>, {"returns"}),
                                      SigStat(2, <<"b">>, {"returns"}),
                                      DefStat(10, 1, <<>>)>>)>>,
                    <<BlockStat(14, <<SigStat(1, <<"a">>, {"returns"}), EmptyStat(12)>>)>>,
                    <<SigStat(3, <<"a", "b">>, {"returns"}), DefStat(10, 1, <<>>),
                      SigStat(1, <<"a">>, {"returns"}), OtherStat(11),
                      SigStat(2, <<"b">>, {"returns"})>>},
         permit \in BOOLEAN}

\* the methods of the declaration programs: initialize, foo, self.bar and
\* self.initialize
DeclMethods ==
    <<Method("initialize", "A", FALSE, <<>>), Method("foo", "A", FALSE, <<>>),
      Method("bar", "A", TRUE, <<>>), Method("initialize", "A", TRUE, <<>>)>>

\* the places of a declaration d: the class body, a method body, a block, and
\* next to a class or a method nested in a block
Placements(d) ==
    {<<d>>,
     <<BlockStat(20, <<d>>)>>,
     <<BlockStat(20, <<BlockStat(21, <<d>>)>>)>>,
     <<ClassStat(22, "B", <<d>>)>>,
     <<BlockStat(20, <<ClassStat(22, "B", <<>>), d>>)>>,
     <<BlockStat(20, <<ClassStat(22, "B", <<>>)>>), d>>,
     <<ClassStat(22, "B", <<>>), d>>,
     <<BlockStat(20, <<DefStat(23, 2, <<>>), d>>)>>}
    \cup {<<DefStat(23, m, <<d>>)>> : m \in DOMAIN DeclMethods}
    \cup {<<DefStat(23, m, <<BlockStat(20, <<d>>)>>)>> : m \in DOMAIN DeclMethods}

Declarations ==
    {DeclStat(30, kind, "x", fun, type) :
         kind \in {"Instance", "Class", "Local"}, fun \in {"let", "cast", "none"},
         type \in {ClassLit("Integer")}}

DeclarationPrograms ==
    {File(stats, DeclMethods, FALSE) : stats \in UNION {Placements(d) : d \in Declarations}}

\* a variable declared twice or three times, with the same type or another
\* one
RedeclarationPrograms ==
    {File(<<DeclStat(30, kind, "x", "let", ClassLit("Integer")),
            DeclStat(31, kind, name, "let", type)>>, DeclMethods, FALSE) :
         kind \in {"Instance", "Class"}, name \in {"x", "y"},
         type \in {ClassLit("Integer"), ClassLit("String")}}
    \cup {File(<<DeclStat(30, kind, "x", "let", t1),
                 DeclStat(31, kind, "x", "let", t2),
                 DeclStat(32, kind, "x", "let", t3)>>, DeclMethods, FALSE) :
              kind \in {"Instance", "Class"},
              t1 \in {ClassLit("Integer"), ClassLit("String")},
              t2 \in {ClassLit("Integer"), ClassLit("String")},
              t3 \in {ClassLit("Integer"), ClassLit("String")}}

\* a sig that names the synthesized block argument, its other argument,
\* both or none
BlockArgPrograms ==
    {File(<<SigStat(1, p, seen), DefStat(10, 1, <<>>)>>, <<Blk>>, FALSE) :
         p \in {<<>>, <<"a">>, <<blkArg>>, <<"a", blkArg>>}, seen \in {{}, {"returns"}}}

SigsPrograms ==
    OverloadPrograms \cup SeenPrograms \cup SigPlacementPrograms \cup BlockArgPrograms
        \cup DeclarationPrograms \cup RedeclarationPrograms

\* the walk object as ResolveSignaturesWalk() constructs it
NewSignaturesWalk ==
    [epos |-> 0, nestedBlockCounts |-> <<0>>, mode |-> "walk", seq |-> <<>>, spos |-> 0,
     lastSigs |-> <<>>, erased |-> {}, injected |-> {}, emptied |-> {}]

\* Resolver::resolveSigs called on a file whose constants are resolved
InitSigs ==
    /\ prog = Base
    /\ ConstantsResolved
    /\ entry = "resolveSigs"
    /\ poolSize = 0
    /\ rpc = 1
    /\ passes = <<>>
    /\ NoTypeMembers
    /\ body \in SigsPrograms
    /\ sw = NewSignaturesWalk
    /\ methods = body.methods
    /\ fields = <<>>
    /\ NoMixes

SpecSigs == InitSigs /\ [][NextSigs]_vars

(***************************************************************************)
(* The mixes_in_class_methods walk on trees whose sends stand in module M  *)
(* or in class A.                                                          *)
(***************************************************************************)
MaxMixes == 2

\* no argument, a module, another module, the module an unresolved constant
\* is bound to, a class, a type alias, a string, and two modules
MixesArguments ==
    {<<>>, <<ClassLit("M")>>, <<ClassLit(NestedM)>>, <<ClassLit(StubModule)>>,
     <<ClassLit("A")>>, <<ClassLit("X")>>, <<StringLit>>,
     <<ClassLit("M"), ClassLit(NestedM)>>}

\* the lists of up to n sends, the i-th at loc i
RECURSIVE MixesLists(_)
MixesLists(n) ==
    IF n = 0 THEN {<<>>}
    ELSE LET shorter == MixesLists(n - 1)
         IN  shorter
                 \cup {Append(l, MixSend(Len(l) + 1, o, "mixes_in_class_methods", a)) :
                          l \in {x \in shorter : Len(x) = n - 1},
                          o \in {"M", NestedM, "A"}, a \in MixesArguments}
                 \cup {Append(l, MixSend(Len(l) + 1, "M", "include", <<ClassLit(NestedM)>>)) :
                          l \in {x \in shorter : Len(x) = n - 1}}

\* Resolver::resolveMixesInClassMethods called on a tree whose constants
\* are resolved
InitMixes ==
    /\ prog = Base
    /\ ConstantsResolved
    /\ entry = "resolveMixesInClassMethods"
    /\ poolSize = 0
    /\ rpc = 1
    /\ passes = <<>>
    /\ NoTypeMembers
    /\ NoMethods
    /\ mixSends \in MixesLists(MaxMixes)
    /\ classMethods = [sym \in UserClasses |-> NoSymbol]
    /\ mpos = 0

NextMixes == MixesInClassMethodsSend \/ ResolveMixesInClassMethods

SpecMixes == InitMixes /\ [][NextMixes]_vars

(***************************************************************************)
(* The entry points run, runTreePasses and runConstantResolution on the    *)
(* programs of constant resolution, with a file that declares type members *)
(* and a file with sigs and declarations for the later walks.              *)
(***************************************************************************)
PipelineDecls ==
    {<<TypeMemberAssign("Parent", <<Hash(<<Key("upper")>>, <<ClassLit("Numeric")>>)>>),
       TypeMemberAssign("Child", <<Hash(<<Key("fixed")>>, <<ClassLit("String")>>)>>)>>}

PipelineFiles ==
    {File(<<SigStat(1, <<"a">>, {"returns"}), SigStat(2, <<"b">>, {"void"}),
            DefStat(10, 1, <<DeclStat(30, "Instance", "x", "let", ClassLit("Integer"))>>),
            SigStat(3, <<>>, {"void"})>>, <<Foo>>, TRUE)}

InitPipeline ==
    /\ prog \in Programs
    /\ entry \in {"run", "runTreePasses", "runConstantResolution"}
    /\ poolSize = PoolOf(entry)
    /\ EnterPool(<<1, 2>>, poolSize)
    /\ InitSymbols
    /\ rpc = 1
    /\ passes = <<>>
    /\ decls \in PipelineDecls
    /\ memberType = [sym \in TypeMembers |-> NamerMember(decls, sym)]
    /\ tpos = 0
    /\ body \in PipelineFiles
    /\ sw = NewSignaturesWalk
    /\ methods = body.methods
    /\ fields = <<>>
    /\ NoMixes

NextPipeline ==
    \/ Next
    \/ ResolveConstantsReturns \/ FinalizeAncestors \/ ResolveMixesInClassMethods
    \/ FinalizeSymbols \/ ResolveTypeParamsStep \/ ResolveTypeParamsReturns
    \/ NextSigs \/ SanityCheck

SpecPipeline == InitPipeline /\ [][NextPipeline]_vars

(***************************************************************************)
(* C19                                                                     *)
(***************************************************************************)
IsPrefix(s, t) == Len(s) <= Len(t) /\ s = SubSeq(t, 1, Len(s))

\* the calls completed so far are the first ones of this list, and all of it
\* at the return
Performs(list) == IsPrefix(passes, list) /\ (EntryReturned => passes = list)

FullPipeline ==
    <<"resolveConstants", "finalizeAncestors", "resolveMixesInClassMethods",
      "finalizeSymbols", "resolveTypeParams", "resolveSigs", "sanityCheck">>

\* C19: runTreePasses performs the pipeline of run in the same order, constant
\* resolution, ancestor finalization, mixes_in_class_methods, symbol
\* finalization, type parameters, signatures, sanity check; it differs only
\* in its zero-worker pool
C19_SamePipeline ==
    /\ entry = "run" => Performs(FullPipeline)
    /\ entry = "runTreePasses" => Performs(FullPipeline) /\ poolSize = 0

\* C19 as the code has it: run performs the seven steps on the caller's pool;
\* runTreePasses performs constant resolution on a zero-worker pool,
\* mixes_in_class_methods, type parameters, signatures and the sanity check,
\* in this order, and neither of the two finalization steps
C19_TreePassesSkipFinalization ==
    /\ entry = "run" => Performs(FullPipeline) /\ poolSize = MaxWorkers
    /\ entry = "runTreePasses" =>
           /\ Performs(<<"resolveConstants", "resolveMixesInClassMethods",
                         "resolveTypeParams", "resolveSigs", "sanityCheck">>)
           /\ poolSize = 0
           /\ \A w \in Workers : w > 1 => wk[w].pc = "exit"

\* runTreePasses has returned after its five steps
C19_Witness ==
    /\ entry = "runTreePasses"
    /\ EntryReturned
    /\ Len(passes) = 5
    /\ "finalizeAncestors" \notin {passes[i] : i \in DOMAIN passes}
    /\ tpos = Len(decls) /\ sw.epos = Len(FileTreeEvents(body))

(***************************************************************************)
(* C15                                                                     *)
(***************************************************************************)
BoundsErrors(sym) ==
    {i \in DOMAIN errors :
         /\ errors[i].loc = sendLoc(sym)
         /\ errors[i].code \in {"InvalidTypeMemberBounds", "ParentTypeBoundsMismatch"}}

TypeParamsWalked == AtCall("resolveTypeParams") /\ tpos = Len(decls)

WithinParent(sym) ==
    LET parent == findParentMember(memberType, sym)
    IN  exists(parent) /\ isTypeMember(memberType, parent) =>
            /\ isSubType(memberType[parent].lowerBound, memberType[sym].lowerBound)
            /\ isSubType(memberType[sym].upperBound, memberType[parent].upperBound)

\* C15: once the type-parameter walk has visited every tree, in whatever order
\* it met the declarations, each type member that got no
\* InvalidTypeMemberBounds and no ParentTypeBoundsMismatch error has
\* lower <= upper and lies within the final bounds of the parent's type member
\* of the same name
C15_BoundsChecked ==
    TypeParamsWalked =>
        \A sym \in TypeMembers :
            isTypeMember(memberType, sym) /\ BoundsErrors(sym) = {} =>
                /\ isSubType(memberType[sym].lowerBound, memberType[sym].upperBound)
                /\ WithinParent(sym)

(***************************************************************************)
(* C17                                                                     *)
(***************************************************************************)
\* processStatement is about to run on a statement of this kind, and runs
AtStatement(stat) ==
    /\ AtCall("resolveSigs")
    /\ sw.mode # "walk"
    /\ sw.spos < Len(sw.seq)
    /\ sw.seq[sw.spos + 1].stat = stat
    /\ sw'.spos = sw.spos + 1

CountErrors(errs, code) == Cardinality({i \in DOMAIN errs : errs[i].code = code})

\* the names of the definition's arguments that the sig names, in the order
\* of the definition
NamedArguments(mdef, sigSend) ==
    LET names == [i \in DOMAIN body.methods[mdef.method].arguments |->
                      body.methods[mdef.method].arguments[i].name]
    IN  SelectSeq(names, LAMBDA n : \E j \in DOMAIN sigSend.params : sigSend.params[j] = n)

ArgumentNames(m) == [j \in DOMAIN m.arguments |-> m.arguments[j].name]

\* the step of processStatement on the definition enters one overload per
\* buffered sig and renames the original once
OverloadsEntered(mdef) ==
    LET k == Len(sw.lastSigs)
        n == Len(methods)
    IN  /\ Len(methods') = n + k
        /\ methods'[mdef.method].name = methods[mdef.method].name \o "$mangle_renamed"
        /\ \A m \in 1..n : m # mdef.method => methods'[m] = methods[m]
        /\ \A i \in 1..k :
               /\ ArgumentNames(methods'[n + i]) = NamedArguments(mdef, sw.lastSigs[i])
               /\ methods'[n + i].owner = methods[mdef.method].owner
               /\ "overloaded" \in methods'[n + i].flags <=> i < k
        /\ \A i \in 1..k, j \in 1..k : i # j => methods'[n + i].name # methods'[n + j].name
        /\ CountErrors(errors', "OverloadNotAllowed") = CountErrors(errors, "OverloadNotAllowed")

\* C17: with two or more sigs buffered in front of a MethodDef in a file that
\* permits overloads, the method symbol is mangle-renamed once, one overload
\* symbol is entered per sig, in sig order, with the arguments that sig
\* names, all but the last are flagged Overloaded, and no OverloadNotAllowed
\* error is emitted; in a file that does not permit overloads no symbol is
\* entered or renamed, and each sig that follows a buffered sig emits one
\* OverloadNotAllowed error
C17_Overloads ==
    [][/\ AtStatement("def") /\ Len(sw.lastSigs) >= 2 /\ body.permitOverloads
          => OverloadsEntered(sw.seq[sw.spos + 1])
       /\ AtStatement("def") /\ ~body.permitOverloads
          => /\ Len(methods') = Len(methods)
             /\ \A m \in DOMAIN methods : methods'[m].name = methods[m].name
       /\ AtStatement("sig") /\ body.permitOverloads
          => CountErrors(errors', "OverloadNotAllowed") = CountErrors(errors, "OverloadNotAllowed")
       /\ AtStatement("sig") /\ ~body.permitOverloads
          => CountErrors(errors', "OverloadNotAllowed")
                 = CountErrors(errors, "OverloadNotAllowed")
                       + (IF sw.lastSigs # <<>> THEN 1 ELSE 0)]_vars

\* three sigs naming a, b, and both were made three overloads of foo
C17_Witness ==
    /\ body.permitOverloads
    /\ Len(methods) = 4
    /\ methods[1].name = "foo$mangle_renamed"
    /\ ArgumentNames(methods[2]) = <<"a">> /\ "overloaded" \in methods[2].flags
    /\ ArgumentNames(methods[3]) = <<"b">> /\ "overloaded" \in methods[3].flags
    /\ ArgumentNames(methods[4]) = <<"a", "b">> /\ "overloaded" \notin methods[4].flags
    /\ sw.lastSigs = <<>>

(***************************************************************************)
(* C18                                                                     *)
(***************************************************************************)
\* postTransformAssign is about to run on @x = T.let(e, T), and runs
AtInstanceLet ==
    /\ AtCall("resolveSigs")
    /\ AtEvent
    /\ NextEvent.ev = "postAssign"
    /\ NextEvent.s.kind = "Instance"
    /\ NextEvent.s.fun = "let"
    /\ sw'.epos = sw.epos + 1

\* the assignment is in a block, in a method other than initialize, or in a
\* singleton method
OutOfPlace(e) ==
    \/ e.blocks > 0
    \/ ~e.owner.isClass /\ body.methods[e.owner.method].name # "initialize"
    \/ ~e.owner.isClass /\ body.methods[e.owner.method].isSelf

\* C18: an instance-variable declaration @x = T.let(e, T) in a method other
\* than initialize, in a singleton method or nested in a block emits exactly
\* one InvalidDeclareVariables error and still enters the field with the
\* annotated type; at class top level or at the top level of initialize it
\* emits no InvalidDeclareVariables error
C18_DeclarationPlace ==
    [][AtInstanceLet =>
           LET e == NextEvent
               emitted == CountErrors(errors', "InvalidDeclareVariables")
                              - CountErrors(errors, "InvalidDeclareVariables")
           IN  IF OutOfPlace(e)
               THEN /\ emitted = 1
                    /\ \E i \in DOMAIN fields' :
                           /\ fields'[i].name = e.s.name
                           /\ fields'[i].resultType = ClassType(e.s.type.symbol)
               ELSE emitted = 0]_vars

(***************************************************************************)
(* C21                                                                     *)
(***************************************************************************)
\* the while loop has been left and the failure path has not begun
LoopExited == pc = "failSort"

\* a job of one of the four lists that a non-final attempt in this state
\* would resolve
WouldSucceed ==
    \/ \E i \in DOMAIN todo : resolveJob(GS, todo[i]).ok
    \/ \E i \in DOMAIN todoAncestors : resolveAncestorJob(GS, todoAncestors[i], FALSE).ok
    \/ \E i \in DOMAIN todoClassAliases : resolveClassAliasJob(GS, todoClassAliases[i]).ok
    \/ \E i \in DOMAIN todoTypeAliases : resolveTypeAliasJob(GS, todoTypeAliases[i]).ok

\* C21: when the fixed-point loop exits no job left in any of the four lists
\* would succeed if it were attempted once more on a non-final pass; no
\* class-alias job whose right-hand side is bound and no type-alias job whose
\* right-hand side is fully resolved is left
C21_TrueFixedPoint ==
    LoopExited =>
        /\ ~WouldSucceed
        /\ \A i \in DOMAIN todoClassAliases : ~exists(lits[todoClassAliases[i].rhs].symbol)
        /\ \A i \in DOMAIN todoTypeAliases : ~isFullyResolved(GS, todoTypeAliases[i].rhs)

\* the loop exits after more than one iteration with a constant and a type
\* alias still pending
C21_Witness ==
    /\ LoopExited
    /\ iters >= 2
    /\ todo # <<>> /\ todoTypeAliases # <<>>

(***************************************************************************)
(* C22                                                                     *)
(***************************************************************************)
\* the four blocks of an iteration in the order of the source
SourceOrder == <<"ancestors", "constants", "classAliases", "typeAliases">>

\* every order of the four blocks
BlockOrders ==
    {o \in [1..4 -> {SourceOrder[k] : k \in 1..4}] : \A i, j \in 1..4 : o[i] = o[j] => i = j}

\* remove_if over the list of the block S.pc, from S.idx to the end
RECURSIVE removeIfFrom(_)
removeIfFrom(S) ==
    IF ~atJob(S) THEN S
    ELSE Then(CASE S.pc = "ancestors" -> ancestorStep(S)
                [] S.pc = "constants" -> constantStep(S)
                [] S.pc = "classAliases" -> classAliasStep(S)
                [] S.pc = "typeAliases" -> typeAliasStep(S),
              removeIfFrom)

\* one block of an iteration: the first block of the iteration assigns
\* progress, the other three add to it
blockOf(S, name, isFirstBlock) ==
    LET erase(R) ==
            LET changed == R.origSize # Len(R.kept)
                R1 == [R EXCEPT !.progress = IF isFirstBlock THEN changed ELSE @ \/ changed,
                                !.idx = 0]
            IN  CASE name = "ancestors" -> [R1 EXCEPT !.todoAncestors = R.kept, !.kept = <<>>]
                  [] name = "constants" -> [R1 EXCEPT !.todo = R.kept, !.kept = <<>>]
                  [] name = "classAliases" -> [R1 EXCEPT !.todoClassAliases = R.kept, !.kept = <<>>]
                  [] name = "typeAliases" -> [R1 EXCEPT !.todoTypeAliases = R.kept, !.kept = <<>>]
        begin(B) == [B EXCEPT !.idx = 1, !.kept = <<>>, !.origSize = Len(currentList(B))]
    IN  Then(removeIfFrom(begin([S EXCEPT !.pc = name])), erase)

\* the while loop with the blocks of every iteration in the order o
RECURSIVE loopIn(_, _)
loopIn(o, S) ==
    IF ~loopCondition(S) THEN [S EXCEPT !.pc = "failSort", !.origSize = 0]
    ELSE LET b4(R) == loopIn(o, blockOf(R, o[4], FALSE))
             b3(R) == Then(blockOf(R, o[3], FALSE), b4)
             b2(R) == Then(blockOf(R, o[2], FALSE), b3)
         IN  Then(blockOf([S EXCEPT !.first = FALSE, !.iters = @ + 1], o[1], TRUE), b2)

\* resolveConstants from the loop to the return, the blocks in the order o
resolveIn(o, S) == runToReturn(loopIn(o, S))

\* what the claim compares: the bindings of the constants, the superclasses,
\* the mixins, the result types of the aliases and the errors begun (in
\* whatever order)
Outcome(S) ==
    [symbols |-> [id \in LitIds |-> S.g.lits[id].symbol],
     superClass |-> S.g.superClass, mixins |-> S.g.mixins,
     resultType |-> S.g.resultType, errors |-> BagOfSeq(S.g.errors)]

\* the loop is about to be entered for the first time
AtLoopEntry == pc = "loop" /\ iters = 0

\* C22: the order of the four blocks within an iteration (ancestors,
\* constants, class aliases, type aliases) is only an optimization: from the
\* state in which the loop is entered, every other order of the blocks ends
\* with the same constant bindings, superclasses, mixins, alias result types
\* and errors
C22_BlockOrderIrrelevant ==
    AtLoopEntry =>
        \A o \in BlockOrders : Outcome(resolveIn(o, Driver)) = Outcome(runToReturn(Driver))

(***************************************************************************)
(* C23                                                                     *)
(***************************************************************************)
\* the key the failure path is said to sort by: strictness of the file
\* (strictest first), file id, start offset, end offset, constant depth
FailureKey(job) ==
    <<0 - strictLevel(sortLoc(job).file), sortLoc(job).file, sortLoc(job).begin,
      sortLoc(job).end, sortDepth(GS, job)>>

\* k1 comes before k2 in the lexicographic order of the keys
KeyBefore(k1, k2) ==
    \E n \in 1..5 : k1[n] < k2[n] /\ \A m \in 1..(n - 1) : k1[m] = k2[m]

\* the failure path has sorted its two lists
FailureSorted == pc \in {"failConstants", "failAncestors"}

\* the jobs of the list are in the order of their keys
InKeyOrder(list) ==
    \A i, j \in DOMAIN list : i < j => KeyBefore(FailureKey(list[i]), FailureKey(list[j]))

\* the comparator of the failure sorts is a strict weak order on the jobs of
\* the list, and it orders two jobs exactly as their keys are ordered
StrictWeakOrder(list) ==
    LET jobs == {list[i] : i \in DOMAIN list}
        before(a, b) == lessOnFailure(GS, a, b)
        unordered(a, b) == ~before(a, b) /\ ~before(b, a)
    IN  /\ \A a \in jobs : ~before(a, a)
        /\ \A a, b, c \in jobs : before(a, b) /\ before(b, c) => before(a, c)
        /\ \A a, b, c \in jobs : unordered(a, b) /\ unordered(b, c) => unordered(a, c)
        /\ \A a, b \in jobs : before(a, b) <=> KeyBefore(FailureKey(a), FailureKey(b))

\* a step of the failure path handles the job at idx and no other: it binds
\* the constant of that job, or writes to the class of that ancestor job
HandlesJobAtIdx ==
    /\ (pc = "failConstants" /\ idx' = idx + 1) =>
           /\ exists(lits'[todo[idx].out].symbol)
           /\ \A i \in DOMAIN todo : i # idx => lits'[todo[i].out] = lits[todo[i].out]
    /\ (pc = "failAncestors" /\ idx' = idx + 1) =>
           \A c \in ClassSymbols \ {todoAncestors[idx].klass} :
               superClass'[c] = superClass[c] /\ mixins'[c] = mixins[c]

\* C23: the failure path processes the remaining constant jobs, and the
\* remaining ancestor jobs, in the order of file strictness (strictest
\* first), file id, start offset, end offset and constant depth; the
\* comparator is a strict weak order, the jobs have distinct keys, and the
\* jobs are handled one after the other in that order
C23_FailureOrder ==
    /\ [](FailureSorted =>
              /\ InKeyOrder(todo) /\ InKeyOrder(todoAncestors)
              /\ StrictWeakOrder(todo) /\ StrictWeakOrder(todoAncestors))
    /\ [][HandlesJobAtIdx]_vars

\* the failure path is half way through three constant jobs of which the one
\* in the stricter second file comes first, and two share their loc and are
\* told apart by their depth
C23_Witness ==
    /\ pc = "failConstants"
    /\ idx = 2
    /\ Len(todo) >= 3
    /\ sortLoc(todo[1]).file = 2 /\ sortLoc(todo[Len(todo)]).file = 1
    /\ \E i \in DOMAIN todo : i < Len(todo) /\ sortLoc(todo[i]) = sortLoc(todo[i + 1])

(***************************************************************************)
(* C24: names with empty scope                                             *)
(***************************************************************************)
\* the nesting chains the walk resolves under: the top level, the bodies of
\* A and B
Nestings == {<<Root, Root>>, <<"A", Root, Root>>, <<"B", Root, Root>>}

LookupNames == {"A", "B", "M", "P", "X", "Y", "Zz"}

\* the nesting chain the walk is under at a slot: a superclass is resolved
\* outside the class, a mixin and the body inside
NestingAt(slot) ==
    CASE slot \in {2, 3} \/ (slot = 1 /\ prog.kindA = "Module") -> <<"A", Root, Root>>
      [] slot = 5 -> <<"B", Root, Root>>
      [] OTHER -> <<Root, Root>>

\* the position of the nearest scope of the chain that has a direct member
\* of the name, 0 when none has
NearestWith(nesting, name) ==
    LET has == {i \in DOMAIN nesting : exists(findMember(nesting[i], name))}
    IN  IF has = {} THEN 0 ELSE CHOOSE i \in has : \A j \in has : i <= j

LexicalOrInherited(g, nesting, name) ==
    IF NearestWith(nesting, name) # 0
    THEN findMember(nesting[NearestWith(nesting, name)], name)
    ELSE findMemberTransitive(g, Head(nesting), name)

\* the nodes the walk has bound by a lookup of a name with empty scope
BoundByName ==
    {id \in LitIds : /\ InitLit(id).node = "UnresolvedConstantLit"
                     /\ LitInfo(id).scope = 0
                     /\ exists(lits[id].symbol)
                     /\ lits[id].symbol # StubModule}

\* C24: for a name with empty scope resolveLhs returns the direct member of
\* the nearest scope of the nesting chain that has one, and only when no
\* scope of the chain has one the result of findMemberTransitive from the
\* innermost scope; a node bound by such a lookup is bound to the lexically
\* visible member whenever there is one
C24_LexicalBeforeInherited ==
    /\ \A nesting \in Nestings : \A name \in LookupNames :
           resolveLhs(GS, nesting, name) = LexicalOrInherited(GS, nesting, name)
    /\ \A id \in BoundByName :
           LET nesting == NestingAt(SlotOf(id))
               name == LitInfo(id).cnst
           IN  NearestWith(nesting, name) # 0
                   => lits[id].symbol = findMember(nesting[NearestWith(nesting, name)], name)

\* B inherits A::M and the walk has bound the M in the body of B to the M of
\* the root; the X that no scope of the chain declares is found by
\* inheritance
C24_Witness ==
    /\ prog.nestedM
    /\ findMemberTransitive(GS, "B", "M") = NestedM
    /\ prog.ref = Const(<<"M">>)
    /\ \E id \in BoundByName : SlotOf(id) = 5 /\ lits[id].symbol = "M"
    /\ NearestWith(<<"B", Root, Root>>, "X") = 0
    /\ resolveLhs(GS, <<"B", Root, Root>>, "X") = "X"

(***************************************************************************)
(* C25: constants under a type alias, under a dynamic scope and under an   *)
(* unbound scope                                                           *)
(***************************************************************************)
UnresolvedLits == {id \in LitIds : InitLit(id).node = "UnresolvedConstantLit"}

\* the errors of a code begun at the constant of node id
ErrorsAt(id, code) ==
    {i \in DOMAIN errors : /\ errors[i].code = code
                           /\ errors[i].loc = LitInfo(id).loc
                           /\ errors[i].what = LitInfo(id).cnst}

ScopeIsTypeAlias(id) ==
    /\ LitInfo(id).scope > 0
    /\ exists(lits[LitInfo(id).scope].symbol)
    /\ isTypeAlias(lits[LitInfo(id).scope].symbol)

ScopeIsDynamic(id) == LitInfo(id).scope < 0

ScopeUnbound(id) == LitInfo(id).scope > 0 /\ ~exists(lits[LitInfo(id).scope].symbol)

\* the constant of node id is bound to untyped with exactly one error of the
\* code and is not reported as a stub
UntypedWithError(id, code) ==
    /\ lits[id].symbol = Untyped
    /\ Cardinality(ErrorsAt(id, code)) = 1
    /\ ErrorsAt(id, "StubConstant") = {}

\* the failure path is about to handle a constant that is not bound
FailureHandles(id) ==
    /\ pc = "failConstants"
    /\ idx \in DOMAIN todo
    /\ todo[idx].out = id
    /\ ~exists(lits[id].symbol)

\* a step of the loop over todo_ leaves the job of a constant under an
\* unbound scope pending and begins no error
UnboundScopeStaysPending ==
    (/\ pc = "constants"
     /\ idx \in DOMAIN todo
     /\ ScopeUnbound(todo[idx].out)
     /\ ~exists(lits[todo[idx].out].symbol)
     /\ idx' = idx + 1)
        => /\ errors' = errors
           /\ ~exists(lits'[todo[idx].out].symbol)
           /\ \E i \in DOMAIN kept' : kept'[i] = todo[idx]

\* C25: a constant under a scope bound to a type alias is bound to untyped
\* with one ConstantInTypeAlias error, a constant under a scope that is no
\* constant is bound to untyped with one DynamicConstant error, neither is
\* handled by the failure path, and a constant under an unbound ConstantLit
\* stays pending without an error
C25_ScopeErrors ==
    /\ [](\A id \in UnresolvedLits :
            /\ (ScopeIsTypeAlias(id) /\ exists(lits[id].symbol))
                   => UntypedWithError(id, "ConstantInTypeAlias")
            /\ (ScopeIsDynamic(id) /\ exists(lits[id].symbol))
                   => UntypedWithError(id, "DynamicConstant")
            /\ (ScopeIsTypeAlias(id) \/ ScopeIsDynamic(id)) => ~FailureHandles(id))
    /\ [][UnboundScopeStaysPending]_vars

(***************************************************************************)
(* C26: constants that name a type alias                                   *)
(***************************************************************************)
\* the symbol resolveConstant finds for the job at the current position of
\* the loop over todo_
NamedByJob == resolveConstant(GS, todo[idx].scope, todo[idx].out).symbol

\* the loop over todo_ attempts the job at the current position
AttemptsJob ==
    /\ pc = "constants"
    /\ idx \in DOMAIN todo
    /\ idx' = idx + 1

JobKept == \E i \in DOMAIN kept' : kept'[i] = todo[idx]

\* an attempt on a job whose name resolves to a type alias: pending and not
\* bound while the resultType of the alias is null, bound to the alias and
\* done once it is populated
AliasJobWaits ==
    (AttemptsJob /\ exists(NamedByJob) /\ isTypeAlias(NamedByJob))
        => IF resultType[NamedByJob] = NullType
           THEN JobKept /\ lits' = lits
           ELSE ~JobKept /\ lits'[todo[idx].out].symbol = NamedByJob

\* C26: no constant the pass binds is bound to a type alias whose resultType
\* is null, and the job of a constant that names a type alias stays pending
\* while that resultType is null and is done by the first attempt after
C26_AliasBoundWhenPopulated ==
    /\ [](\A id \in UnresolvedLits :
            (exists(lits[id].symbol) /\ isTypeAlias(lits[id].symbol))
                => resultType[lits[id].symbol] # NullType)
    /\ [][AliasJobWaits]_vars

\* the second iteration of the loop has bound a constant to a type alias that
\* the first iteration left pending
C26_Witness ==
    /\ pc = "constants"
    /\ iters >= 2
    /\ \E i \in DOMAIN todo :
           /\ i < idx
           /\ todo[i].out \in UnresolvedLits
           /\ isTypeAlias(lits[todo[i].out].symbol)
           /\ \A j \in DOMAIN kept : kept[j] # todo[i]

(***************************************************************************)
(* C27: the type of a type alias is parsed from a resolved right-hand side *)
(***************************************************************************)
\* the constants of the right-hand side of the alias lhs, scopes included
RhsConstants(lhs) ==
    {id \in LitIds \ LhsLits :
        /\ SlotOf(id) = (IF lhs = "X" THEN 3 ELSE 7)
        /\ LitInfo(id).present}

\* every constant of the right-hand side is bound, and to a type alias only
\* if that alias has its type
RhsResolved(lhs) ==
    \A id \in RhsConstants(lhs) :
        /\ exists(lits[id].symbol)
        /\ isTypeAlias(lits[id].symbol) => resultType[lits[id].symbol] # NullType

\* the loop over todoTypeAliases_ attempts the job at the current position
AttemptsAliasJob ==
    /\ pc = "typeAliases"
    /\ idx \in DOMAIN todoTypeAliases
    /\ idx' = idx + 1

AliasJobKept == \E i \in DOMAIN kept' : kept'[i] = todoTypeAliases[idx]

DeclaredInGeneric(lhs) == hasTypeMembers(owner(lhs))

\* an attempt on the job of an alias outside a generic class: done and the
\* type parsed from the right-hand side when that is resolved, pending and
\* nothing written when it is not
ParsesResolvedRhs ==
    (AttemptsAliasJob /\ ~DeclaredInGeneric(todoTypeAliases[idx].lhs))
        => IF RhsResolved(todoTypeAliases[idx].lhs)
           THEN /\ ~AliasJobKept
                /\ resultType'[todoTypeAliases[idx].lhs] =
                       getResultType(GS, todoTypeAliases[idx].rhs)
           ELSE /\ AliasJobKept
                /\ resultType' = resultType
                /\ errors' = errors

\* C27: a type-alias job outside a generic class is done exactly when every
\* constant of its right-hand side is resolved, the type is parsed from the
\* right-hand side only then, and no alias ever has a type parsed from an
\* unbound constant
C27_ParsedWhenResolved ==
    /\ [](\A f \in StaticFields : resultType[f] # ParsedType(NoSymbol))
    /\ [][ParsesResolvedRhs]_vars

\* the second iteration has parsed the type of an alias whose job the first
\* iteration kept
C27_Witness ==
    /\ pc = "typeAliases"
    /\ iters >= 2
    /\ idx > 1
    /\ idx - 1 \in DOMAIN todoTypeAliases
    /\ resultType[todoTypeAliases[idx - 1].lhs][1] = "type"
    /\ RhsResolved(todoTypeAliases[idx - 1].lhs)
    /\ ~DeclaredInGeneric(todoTypeAliases[idx - 1].lhs)

(***************************************************************************)
(* C28: type aliases declared in a generic class                           *)
(***************************************************************************)
\* an attempt on the job of an alias declared in a generic class: done, one
\* TypeAliasInGenericClass error at the right-hand side, the untyped type for
\* the alias and no other type written
RejectsAliasInGeneric ==
    (AttemptsAliasJob /\ DeclaredInGeneric(todoTypeAliases[idx].lhs))
        => /\ ~AliasJobKept
           /\ errors' = Append(errors, [code |-> "TypeAliasInGenericClass",
                                        loc |-> todoTypeAliases[idx].loc,
                                        what |-> todoTypeAliases[idx].lhs,
                                        line |-> todoTypeAliases[idx].loc])
           /\ resultType' = [resultType EXCEPT ![todoTypeAliases[idx].lhs] = UntypedType]

\* the first pass over todoTypeAliases_ is over
FirstAliasPassOver ==
    \/ iters >= 2
    \/ pc \in {"failSort", "failConstants", "failAncestors", "done"}

\* C28: the job of a type alias declared in a generic class is done by its
\* first attempt, resolved right-hand side or not, with an error and the
\* untyped type, and its right-hand side is not parsed
C28_AliasInGenericClass ==
    /\ [](FirstAliasPassOver =>
            \A i \in DOMAIN todoTypeAliases : ~DeclaredInGeneric(todoTypeAliases[i].lhs))
    /\ [][RejectsAliasInGeneric]_vars

\* the first iteration has finished the job of an alias in a generic class
\* whose right-hand side is not resolved
C28_Witness ==
    /\ pc = "typeAliases"
    /\ iters = 1
    /\ idx > 1
    /\ idx - 1 \in DOMAIN todoTypeAliases
    /\ DeclaredInGeneric(todoTypeAliases[idx - 1].lhs)
    /\ ~RhsResolved(todoTypeAliases[idx - 1].lhs)
    /\ resultType[todoTypeAliases[idx - 1].lhs] = UntypedType
    /\ \A j \in DOMAIN kept : kept[j] # todoTypeAliases[idx - 1]

(***************************************************************************)
(* C29: class-alias jobs                                                   *)
(***************************************************************************)
\* the loop over todoClassAliases_ attempts the job at the current position
AttemptsClassAliasJob ==
    /\ pc = "classAliases"
    /\ idx \in DOMAIN todoClassAliases
    /\ idx' = idx + 1

ClassAliasJobKept == \E i \in DOMAIN kept' : kept'[i] = todoClassAliases[idx]

\* the three ways a class-alias job ends
ReassignsTypeAlias(it) ==
    /\ errors' = Append(errors, [code |-> "ReassignsTypeAlias", loc |-> LitInfo(it.rhs).loc,
                                 what |-> it.lhs, line |-> LitInfo(it.rhs).loc])
    /\ resultType' = [resultType EXCEPT ![it.lhs] = UntypedType]

RecursiveClassAlias(it) ==
    /\ errors' = Append(errors, [code |-> "RecursiveClassAlias", loc |-> symbolLoc(it.lhs),
                                 what |-> it.lhs, line |-> symbolLoc(it.lhs)])
    /\ resultType' = [resultType EXCEPT ![it.lhs] = UntypedType]

AliasesClass(it) ==
    /\ errors' = errors
    /\ resultType' = [resultType EXCEPT ![it.lhs] = AliasType(lits[it.rhs].symbol)]

\* an attempt on a class-alias job: kept, nothing written and no error while
\* the right-hand side is unbound; done in the way the right-hand side
\* decides, and in no other, when it is bound
ClassAliasOutcome ==
    AttemptsClassAliasJob
        => LET it == todoClassAliases[idx]
               rhsSym == lits[todoClassAliases[idx].rhs].symbol
           IN  IF ~exists(rhsSym)
               THEN ClassAliasJobKept /\ resultType' = resultType /\ errors' = errors
               ELSE /\ ~ClassAliasJobKept
                    /\ ReassignsTypeAlias(it) <=> isTypeAlias(rhsSym)
                    /\ RecursiveClassAlias(it)
                           <=> (~isTypeAlias(rhsSym) /\ dealias(GS, rhsSym) = it.lhs)
                    /\ AliasesClass(it)
                           <=> (~isTypeAlias(rhsSym) /\ dealias(GS, rhsSym) # it.lhs)

\* between the loop over todoClassAliases_ and the next loop over todo_
AfterClassAliases ==
    \/ iters >= 1 /\ pc \in {"typeAliases", "loop", "failSort"}
    \/ iters >= 2 /\ pc = "ancestors"

NotAttachable(job) == PendingKind(job) \in {"typeAlias", "notAClass"}

\* the DynamicSuperclass errors begun so far at the ancestor of the job
DynamicSuperclassErrors(errs, job) ==
    Cardinality({i \in DOMAIN errs : /\ errs[i].code = "DynamicSuperclass"
                                     /\ errs[i].loc = LitInfo(job.ancestor).loc})

\* an attempt of the loop on such a job keeps it, begins no error and writes
\* nothing to the symbol table
LoopKeepsAncestor ==
    (/\ pc = "ancestors"
     /\ idx \in DOMAIN todoAncestors
     /\ idx' = idx + 1
     /\ NotAttachable(todoAncestors[idx]))
        => /\ \E i \in DOMAIN kept' : kept'[i] = todoAncestors[idx]
           /\ errors' = errors
           /\ superClass' = superClass
           /\ mixins' = mixins
           /\ sealedSubclasses' = sealedSubclasses

\* the failure path handles such a job
FailureSettlesAncestor ==
    /\ AtFailAncestorJob
    /\ idx' = idx + 1
    /\ NotAttachable(todoAncestors[idx])

OneDynamicSuperclass ==
    DynamicSuperclassErrors(errors', todoAncestors[idx]) =
        DynamicSuperclassErrors(errors, todoAncestors[idx]) + 1

\* C30 as stated: an ancestor job whose ancestor is bound to a type alias or
\* dealiases to something that is no class is kept by every attempt of the
\* loop without an error and without a write, and the failure path begins
\* exactly one DynamicSuperclass error for it and makes StubSuperClass the
\* superclass of klass or appends StubMixin to its mixins
C30_SettledByStub ==
    /\ [][LoopKeepsAncestor]_vars
    /\ [][FailureSettlesAncestor =>
            /\ OneDynamicSuperclass
            /\ IF todoAncestors[idx].isSuperclass
               THEN superClass'[todoAncestors[idx].klass] = StubSuperClass
               ELSE mixins'[todoAncestors[idx].klass] =
                        Append(mixins[todoAncestors[idx].klass], StubMixin)]_vars

\* C30 amended: as stated, except that the failure path does not make
\* StubSuperClass the superclass of a klass that has another superclass: it
\* keeps that superclass and begins a RedefinitionOfParents error after the
\* DynamicSuperclass error
C30_SettledByStubUnlessParent ==
    /\ [][LoopKeepsAncestor]_vars
    /\ [][FailureSettlesAncestor =>
            /\ OneDynamicSuperclass
            /\ WroteAncestor(todoAncestors[idx], IF todoAncestors[idx].isSuperclass
                                                 THEN StubSuperClass ELSE StubMixin)]_vars

\* the failure path has handled a superclass bound to a type alias that the
\* loop kept in two iterations or more: one DynamicSuperclass error, and
\* StubSuperClass is the superclass
C30_Witness ==
    /\ pc = "failAncestors"
    /\ iters >= 2
    /\ idx > 1
    /\ idx - 1 \in DOMAIN todoAncestors
    /\ PendingKind(todoAncestors[idx - 1]) = "typeAlias"
    /\ todoAncestors[idx - 1].isSuperclass
    /\ superClass[todoAncestors[idx - 1].klass] = StubSuperClass
    /\ DynamicSuperclassErrors(errors, todoAncestors[idx - 1]) = 1

(***************************************************************************)
(* C31: the ancestor jobs of a ClassDef                                    *)
(***************************************************************************)
\* the places that hold an ancestor expression: of A (1, 2) and of B (4)
AncestorSlots == {1, 2, 4}

\* the pre-walk of both files is over and nothing has been attempted
AllJobsEnqueued == pc = "sort"

\* the ancestor at the place is the first ancestor of a class that is no
\* module and no singleton class
FirstOfClass(s) == s = 4 \/ (s = 1 /\ prog.kindA = "Class")

\* the class the ancestor at the place belongs to: the class of the ClassDef,
\* or its singleton class for an ancestor the class extends
ClassOfAncestor(s) ==
    CASE s = 4 -> "B"
      [] s = 2 /\ prog.extendsA -> SingletonA
      [] OTHER -> "A"

\* the nesting chain around the ClassDef and the one inside it
NestingOfAncestor(s) ==
    IF FirstOfClass(s) THEN <<Root, Root>>
    ELSE <<(IF s = 4 THEN "B" ELSE "A"), Root, Root>>

JobsOfAncestor(s) == {i \in DOMAIN todoAncestors : todoAncestors[i].ancestor = TopLit(s)}

\* C31: the pre-walk enqueues exactly one ancestor job for every ancestor
\* expression that is a constant or self; the job is a superclass job exactly
\* for the first ancestor of a class that is neither a module nor a singleton
\* class and a mixin job otherwise, singleton ancestors included; a
\* superclass constant is resolved under the nesting around the class and a
\* mixin constant under the nesting inside it
C31_OneJobPerAncestor ==
    AllJobsEnqueued =>
        /\ \A s \in AncestorSlots :
               IF Declared(SlotExpr(s))
               THEN /\ Cardinality(JobsOfAncestor(s)) = 1
                    /\ \A i \in JobsOfAncestor(s) :
                           /\ todoAncestors[i].isSuperclass = FirstOfClass(s)
                           /\ todoAncestors[i].klass = ClassOfAncestor(s)
               ELSE JobsOfAncestor(s) = {}
        /\ \A i \in DOMAIN todo :
               SlotOf(todo[i].out) \in AncestorSlots
                   => todo[i].scope = NestingOfAncestor(SlotOf(todo[i].out))

(***************************************************************************)
(* C36: the assertions of the failure path                                 *)
(***************************************************************************)
\* what constantResolutionFailed finds when it resolves the job it is about
\* to handle
ReResolved == resolveConstant(GS, todo[idx].scope, todo[idx].out).symbol

\* ENFORCE(!resolved.exists()) of constantResolutionFailed
FailedConstantHasNoSymbol ==
    (pc = "failConstants" /\ idx \in DOMAIN todo)
        => (~exists(ReResolved) \/ isTypeAlias(ReResolved))

\* ENFORCE(resolved) of the loop over the remaining ancestor jobs
FailedAncestorResolves ==
    (pc = "failAncestors" /\ idx \in DOMAIN todoAncestors)
        => /\ exists(lits[todoAncestors[idx].ancestor].symbol)
           /\ resolveAncestorJob(GS, todoAncestors[idx], TRUE).ok

\* C36: in the failure path constantResolutionFailed resolves every remaining
\* constant to no symbol or to a type alias, whatever the earlier jobs of the
\* failure path have stubbed or forced, every remaining ancestor job finds
\* its constant bound and is resolved with lastRun=true, and so neither
\* ENFORCE of the failure path fails
C36_FailurePathAssertions ==
    /\ FailedConstantHasNoSymbol
    /\ FailedAncestorResolves
    /\ enforceFailed \cap {"constantResolutionFailed", "resolveAncestorJob"} = {}

(***************************************************************************)
(* C37: an attempt that leaves its job pending                             *)
(***************************************************************************)
\* a step of one of the four blocks of the loop keeps the job it attempted
AttemptKeepsJob ==
    /\ pc \in {"ancestors", "constants", "classAliases", "typeAliases"}
    /\ atJob(Driver)
    /\ idx' = idx + 1
    /\ kept' = Append(kept, currentList(Driver)[idx])

\* the steps of the driver from S to the end of the iteration S is in
RECURSIVE iterationEnd(_)
iterationEnd(S) ==
    IF S.pc \in {"loop", "failSort", "done"} THEN S ELSE Then(driverStep(S), iterationEnd)

\* the driver is at the loop test and goes round once more
BeginsIteration == pc = "loop" /\ loopCondition(Driver)

\* the trees, the symbol table, the errors and the four lists are the same in
\* S as now
SameStateAs(S) ==
    /\ S.g = GS
    /\ S.todo = todo
    /\ S.todoAncestors = todoAncestors
    /\ S.todoClassAliases = todoClassAliases
    /\ S.todoTypeAliases = todoTypeAliases

\* C37: an attempt of the loop that leaves its job pending writes no node,
\* superclass, mixin list or result type and begins no error, and an
\* iteration that makes no progress ends in the state it began in
C37_PendingAttemptIsNoOp ==
    /\ [][AttemptKeepsJob => UNCHANGED <<gsVars, listVars>>]_vars
    /\ [](BeginsIteration =>
            LET end == iterationEnd(driverStep(Driver))
            IN  ~end.progress => SameStateAs(end))

\* the loop has been round twice, the second time without progress, and
\* jobs of two kinds are still pending
C37_Witness ==
    /\ pc = "loop"
    /\ iters >= 2
    /\ ~progress
    /\ todo # <<>>
    /\ todoAncestors # <<>>

(***************************************************************************)
(* C38: bindings are written once                                          *)
(***************************************************************************)
\* no step changes the symbol of a ConstantLit that has one
BoundSymbolsStay ==
    \A id \in DOMAIN lits :
        exists(lits[id].symbol) => lits'[id].symbol = lits[id].symbol

\* a step of the loop that drops the ancestor job it attempted, or a step of
\* the failure path on an ancestor job
CompletesAncestorJob ==
    /\ AtAncestorJob
    /\ idx' = idx + 1
    /\ pc = "ancestors" => kept' = kept

\* the step left the superclass of every class and every mixin list alone,
\* except those of klass
OnlyClassWritten(klass) ==
    /\ \A k \in DOMAIN superClass \ {klass} : superClass'[k] = superClass[k]
    /\ \A k \in DOMAIN mixins \ {klass} : mixins'[k] = mixins[k]

\* the step made one superclass assignment to the class of job
AssignsSuperclass(job) ==
    /\ superClass'[job.klass] \in
           {dealias(GS, lits'[job.ancestor].symbol), StubSuperClass}
    /\ mixins' = mixins
    /\ OnlyClassWritten(job.klass)

\* the step made one append to the mixins of the class of job
AppendsMixin(job) ==
    /\ \E R \in ClassSymbols : mixins'[job.klass] = Append(mixins[job.klass], R)
    /\ superClass' = superClass
    /\ OnlyClassWritten(job.klass)

\* the step wrote nothing to the class of job and began a
\* RedefinitionOfParents error for it
RefusesSuperclass(job) ==
    /\ job.isSuperclass
    /\ superClass[job.klass] \notin {NoSymbol, Todo}
    /\ superClass' = superClass
    /\ mixins' = mixins
    /\ errors'[Len(errors')].code = "RedefinitionOfParents"
    /\ errors'[Len(errors')].what = job.klass

\* the ancestor jobs the pre-walk produced for class k that are mixin jobs
MixinJobsOf(k) ==
    {i \in DOMAIN hist.ancestors :
        hist.ancestors[i].klass = k /\ ~hist.ancestors[i].isSuperclass}

\* the ancestor jobs the pre-walk produced, each exactly once in the list
JobsAreDistinct ==
    \A i, j \in DOMAIN hist.ancestors :
        hist.ancestors[i].ancestor = hist.ancestors[j].ancestor => i = j

\* when resolveConstants has returned, every mixin list has grown by one
\* entry for each mixin job of its class
OneAppendPerMixinJob ==
    Returned =>
        \A k \in DOMAIN mixins :
            Len(mixins[k]) = Len(InitGS.mixins[k]) + Cardinality(MixinJobsOf(k))

\* a job the loop has dropped is not in the list the failure path walks
DroppedJobIsGone ==
    (CompletesAncestorJob /\ pc = "ancestors")
        => \A i \in DOMAIN kept' : kept'[i] # todoAncestors[idx]

\* C38 as stated: no step changes the symbol of a ConstantLit that has an
\* existing symbol, and every ancestor job writes to its class exactly once
\* over the run, one superclass assignment or one mixin append, in the step
\* of the loop that drops it or in the step of the failure path that handles
\* it, and in no other step
C38_WriteOnce ==
    /\ [][BoundSymbolsStay]_vars
    /\ [][CompletesAncestorJob =>
            IF todoAncestors[idx].isSuperclass
            THEN AssignsSuperclass(todoAncestors[idx])
            ELSE AppendsMixin(todoAncestors[idx])]_vars
    /\ [][DroppedJobIsGone]_vars
    /\ [](JobsAreDistinct /\ OneAppendPerMixinJob)

\* C38 amended: as stated, except that a superclass job whose class has
\* another superclass already writes nothing: it begins a
\* RedefinitionOfParents error and the class keeps the superclass it has
C38_WriteAtMostOnce ==
    /\ [][BoundSymbolsStay]_vars
    /\ [][CompletesAncestorJob =>
            IF todoAncestors[idx].isSuperclass
            THEN \/ AssignsSuperclass(todoAncestors[idx])
                 \/ RefusesSuperclass(todoAncestors[idx])
            ELSE AppendsMixin(todoAncestors[idx])]_vars
    /\ [][DroppedJobIsGone]_vars
    /\ [](JobsAreDistinct /\ OneAppendPerMixinJob)

\* resolveConstants has returned after two ancestor jobs: the superclass of
\* one was assigned by the loop, the mixin of the other was appended by the
\* failure path after the loop had kept the job, and the symbols written
\* into both ancestors are still there
C38_Witness ==
    /\ Returned
    /\ iters >= 2
    /\ \E i, j \in DOMAIN hist.ancestors :
          /\ hist.ancestors[i].isSuperclass
          /\ ~hist.ancestors[j].isSuperclass
          /\ superClass[hist.ancestors[i].klass] = lits[hist.ancestors[i].ancestor].symbol
          /\ superClass[hist.ancestors[i].klass] \in UserClasses
          /\ Len(mixins[hist.ancestors[j].klass]) = 1
          /\ lits[hist.ancestors[j].ancestor].symbol = StubModule

(***************************************************************************)
(* C40: the nesting chain of the pre-walk                                  *)
(***************************************************************************)
\* between two files, and before the first, the nesting chain of every
\* worker's walker is the root entry it was constructed with
NestingAtRoot ==
    \A w \in Workers : wk[w].pc # "walk" => wk[w].constants.nesting_ = <<Root>>

\* the jobs a worker holds for the constant at slot s have the nesting of
\* the place of s in its file
JobNestingAt(s) ==
    \A w \in Workers : \A i \in DOMAIN wk[w].constants.todo_ :
        wk[w].constants.todo_[i].out = TopLit(s) =>
            wk[w].constants.todo_[i].scope = NestingAt(s)

\* the walker of w after the walk of its file is the walker before it with
\* the jobs a newly constructed walker produces for the file appended
WalkIsPure(w) ==
    LET fresh == applyWalk(GS, NewWalk, FileEvents(wk[w].job)).w
        before == wk[w].constants
        after == wk'[w].constants
    IN  (wk[w].pc = "walk" /\ wk'[w].pc = "pop")
            => /\ after.nesting_ = fresh.nesting_
               /\ after.todo_ = before.todo_ \o fresh.todo_
               /\ after.todoAncestors_ = before.todoAncestors_ \o fresh.todoAncestors_
               /\ after.todoClassAliases_ = before.todoClassAliases_ \o fresh.todoClassAliases_
               /\ after.todoTypeAliases_ = before.todoTypeAliases_ \o fresh.todoTypeAliases_

\* C40: the nesting chain of the pre-walk is balanced: it is at root after
\* every file, a constant after a ClassDef and a mixin after the superclass
\* of its class have the nesting of their place, and the jobs a worker
\* produces for a file are those a newly constructed walker produces for it
C40_NestingBalanced ==
    /\ [](NestingAtRoot /\ \A s \in 1..7 : JobNestingAt(s))
    /\ [][\A w \in Workers : WalkIsPure(w)]_vars

\* one worker has walked both files: it holds a job for the mixin of A,
\* whose superclass is a constant, with the nesting of the body of A and a
\* job for the constant after the classes of the second file with the
\* nesting of the top level
C40_Witness ==
    \E w \in Workers :
        /\ wk[w].pc = "pop"
        /\ Len(wk[w].partiallyResolvedTrees) = 2
        /\ prog.kindA = "Class" /\ ~prog.extendsA
        /\ prog.supA.kind = "const"
        /\ lits[TopLit(1)].node = "ConstantLit"
        /\ \E i, j \in DOMAIN wk[w].constants.todo_ :
              /\ wk[w].constants.todo_[i].out = TopLit(2)
              /\ wk[w].constants.todo_[i].scope = <<"A", Root, Root>>
              /\ wk[w].constants.todo_[j].out = TopLit(6)
              /\ wk[w].constants.todo_[j].scope = <<Root, Root>>

(***************************************************************************)
(* C32: the sig buffer lastSigs                                            *)
(***************************************************************************)
\* the position of the last MethodDef among the first n statements, 0 if none
LastDefBefore(seq, n) ==
    LET defs == {i \in 1..n : seq[i].stat = "def"}
    IN  IF defs = {} THEN 0 ELSE CHOOSE i \in defs : \A j \in defs : j <= i

\* the sigs among the first n statements that no MethodDef follows there
SigsPending(seq, n) ==
    SelectSeq(SubSeq(seq, LastDefBefore(seq, n) + 1, n), LAMBDA s : s.stat = "sig")

\* while the walk is between two statement sequences no sig is buffered, and
\* inside a sequence the buffer holds the sigs of this sequence that no
\* MethodDef has followed yet
BufferOfThisSequence ==
    AtCall("resolveSigs") =>
        IF sw.mode = "walk" THEN sw.lastSigs = <<>>
        ELSE sw.lastSigs = SigsPending(sw.seq, sw.spos)

NoDefFollowing(errs) ==
    {i \in DOMAIN errs : errs[i].code = "InvalidMethodSignature" /\ errs[i].what = "no method def"}

\* processStatement on a MethodDef with sigs buffered applies every one of
\* them, empties the buffer and begins no "no method def following" error
DefConsumesSigs ==
    (AtStatement("def") /\ sw.lastSigs # <<>>) =>
        LET mdef == sw.seq[sw.spos + 1]
            n == Len(sw.lastSigs)
        IN  /\ sw'.lastSigs = <<>>
            /\ NoDefFollowing(errors') = NoDefFollowing(errors)
            /\ IF n > 1 /\ body.permitOverloads
               THEN /\ Len(methods') = Len(methods) + n
                    /\ \A i \in 1..n :
                           methods'[Len(methods) + i].resultType
                               = parseSig(sw.lastSigs[i]).returns
               ELSE methods'[mdef.method].resultType = parseSig(sw.lastSigs[n]).returns

\* the end of processClassBody or processInSeq
AtEndOfSequence ==
    /\ AtCall("resolveSigs")
    /\ sw.mode # "walk"
    /\ sw.spos = Len(sw.seq)
    /\ sw'.mode = "walk"

\* the end of a statement sequence empties the buffer, with one "no method
\* def following" error at the first sig left over, if one is
LeftoverSigsReported ==
    AtEndOfSequence =>
        /\ sw'.lastSigs = <<>>
        /\ methods' = methods
        /\ IF sw.lastSigs = <<>> THEN errors' = errors
           ELSE /\ Len(errors') = Len(errors) + 1
                /\ SubSeq(errors', 1, Len(errors)) = errors
                /\ Len(errors') \in NoDefFollowing(errors')
                /\ errors'[Len(errors')].loc = statLoc(sw.lastSigs[1].id)

\* no other step begins a "no method def following" error
OnlyLeftoversReported ==
    ~AtEndOfSequence => NoDefFollowing(errors') = NoDefFollowing(errors)

\* C32: lastSigs is empty after every MethodDef that consumed sigs and at the
\* end of every statement sequence; every sig is applied to the next
\* MethodDef of its sequence or, if none follows, left over, with exactly one
\* "no method def following" error per sequence at the first leftover sig;
\* no sig is carried over to another statement sequence
C32_SigBuffer ==
    /\ [](BufferOfThisSequence)
    /\ [][DefConsumesSigs /\ LeftoverSigsReported /\ OnlyLeftoversReported]_vars

\* a class body in which a sig was applied to its MethodDef and two sigs
\* after it were left over: one error, at the first of the two, and the
\* buffer is empty
C32_Witness ==
    /\ AtCall("resolveSigs")
    /\ sw.mode = "walk"
    /\ sw.lastSigs = <<>>
    /\ Len(body.stats[1].body) = 5
    /\ body.stats[1].body[2].stat = "def"
    /\ methods[1].resultType = ClassType("String")
    /\ \E i \in DOMAIN errors :
          /\ NoDefFollowing(errors) = {i}
          /\ errors[i].loc = statLoc(1)
    /\ sw.epos = Len(FileTreeEvents(body))

(***************************************************************************)
(* C33: the arguments of a method after a sig                              *)
(***************************************************************************)
\* processStatement runs on a MethodDef with sigs buffered
AppliesSigs == AtStatement("def") /\ sw.lastSigs # <<>>

AppliesOverloads == Len(sw.lastSigs) > 1 /\ body.permitOverloads

\* the method symbol the i-th buffered sig is applied to
SigSymbol(i) ==
    IF AppliesOverloads THEN Len(methods) + i ELSE sw.seq[sw.spos + 1].method

\* the names in params of the i-th buffered sig
ParamNames(i) == {sw.lastSigs[i].params[k] : k \in DOMAIN sw.lastSigs[i].params}

\* the type params of the i-th buffered sig declares for name
DeclaredType(i, name) ==
    LET argTypes == parseSig(sw.lastSigs[i]).argTypes
    IN  argTypes[findSpec(argTypes, name)].type

\* every argument of the symbol the i-th sig was applied to has the type the
\* sig declares for its name, or untyped if the sig does not name it
ArgumentsTypedBy(i) ==
    \A j \in DOMAIN methods'[SigSymbol(i)].arguments :
        LET arg == methods'[SigSymbol(i)].arguments[j]
        IN  /\ arg.type # NullType
            /\ arg.type = IF arg.name \in ParamNames(i)
                          THEN DeclaredType(i, arg.name)
                          ELSE UntypedType

\* the errors of errs with this text
SigErrors(errs, what) ==
    {k \in DOMAIN errs : errs[k].code = "InvalidMethodSignature" /\ errs[k].what = what}

\* the arguments the i-th sig leaves without a type and the claim has an
\* error for
Unspecified(i) ==
    {j \in DOMAIN methods'[SigSymbol(i)].arguments :
        /\ methods'[SigSymbol(i)].arguments[j].name \notin ParamNames(i)
        /\ ~AppliesOverloads
        /\ methods'[SigSymbol(i)].arguments[j].name # blkArg
        /\ parseSig(sw.lastSigs[i]).seen \cap {"params", "returns", "void"} # {}}

\* the entries of params of the i-th sig that match no argument
UnknownNames(i) ==
    {k \in DOMAIN sw.lastSigs[i].params :
        \A j \in DOMAIN methods'[SigSymbol(i)].arguments :
            methods'[SigSymbol(i)].arguments[j].name # sw.lastSigs[i].params[k]}

\* the size of F(i) summed over the buffered sigs i
OverSigs(F(_)) == Cardinality(UNION {{<<i, j>> : j \in F(i)} : i \in DOMAIN sw.lastSigs})

\* the sigs whose symbol no later sig of the buffer is applied to
LastApplied == IF AppliesOverloads THEN DOMAIN sw.lastSigs ELSE {Len(sw.lastSigs)}

\* C33: after a sig has been applied to a method every argument of the
\* method symbol has a type, the one params declares for its name or untyped
\* if the sig does not name it; a "type not specified" error is begun for an
\* argument the sig does not name exactly when the method is not overloaded,
\* the argument is not the synthesized block argument and the sig declared
\* params, returns or void; and one "unknown argument name" error is begun
\* for each entry of params that matches no argument
C33_ArgumentsTyped ==
    [][AppliesSigs =>
          /\ \A i \in LastApplied : ArgumentsTypedBy(i)
          /\ Cardinality(SigErrors(errors', "type not specified"))
                 = Cardinality(SigErrors(errors, "type not specified"))
                       + OverSigs(Unspecified)
          /\ Cardinality(SigErrors(errors', "unknown argument"))
                 = Cardinality(SigErrors(errors, "unknown argument"))
                       + OverSigs(UnknownNames)]_vars

\* the same for a MethodDef with one sig in front of it
ArgumentsTypedByOneSig ==
    [][(AppliesSigs /\ Len(sw.lastSigs) = 1) =>
          /\ ArgumentsTypedBy(1)
          /\ Cardinality(SigErrors(errors', "type not specified"))
                 = Cardinality(SigErrors(errors, "type not specified"))
                       + Cardinality(Unspecified(1))
          /\ Cardinality(SigErrors(errors', "unknown argument"))
                 = Cardinality(SigErrors(errors, "unknown argument"))
                       + Cardinality(UnknownNames(1))]_vars

(***************************************************************************)
(* C34: a variable declared again                                          *)
(***************************************************************************)
\* handleDeclaration is about to run on @x = T.let(e, T) or @@x = T.let(e, T),
\* and runs
AtLetDeclaration ==
    /\ AtCall("resolveSigs")
    /\ AtEvent
    /\ NextEvent.ev = "postAssign"
    /\ NextEvent.s.kind \in {"Instance", "Class"}
    /\ NextEvent.s.fun = "let"
    /\ sw'.epos = sw.epos + 1

\* the scope the declaration of event e declares its variable on
DeclarationScope(e) ==
    IF e.s.kind = "Class" THEN enclosingClassOf(methods, e.owner)
    ELSE selfClass(methods, e.owner)

\* the member of that name the scope has, 0 if none
PriorOf(e) == findField(fields, DeclarationScope(e), e.s.name)

DuplicateDeclarations(errs) ==
    {i \in DOMAIN errs : errs[i].code = "DuplicateVariableDeclaration"}

\* a declaration of a variable its scope has already
Redeclares ==
    AtLetDeclaration /\ PriorOf(NextEvent) # 0 =>
        /\ fields' = fields
        /\ IF equiv(fields[PriorOf(NextEvent)].resultType, getTypeOf(NextEvent.s.type))
           THEN errors' = errors
           ELSE /\ Len(errors') = Len(errors) + 1
                /\ SubSeq(errors', 1, Len(errors)) = errors
                /\ Len(errors') \in DuplicateDeclarations(errors')
                /\ errors'[Len(errors')].loc = statLoc(NextEvent.s.id)

\* the declarations the walk has handled so far that declare the variable
\* of field f
DeclarationsOf(f) ==
    {n \in 1..sw.epos :
        LET e == FileTreeEvents(body)[n]
        IN  /\ e.ev = "postAssign"
            /\ e.s.kind \in {"Instance", "Class"}
            /\ postTransformSend(e.s).isCast
            /\ DeclarationScope(e) = f.scope
            /\ e.s.name = f.name}

\* every variable has one symbol, and its type is the type of the first of
\* its declarations
TypeOfFirstDeclaration ==
    AtCall("resolveSigs") =>
        /\ \A i, j \in DOMAIN fields :
               fields[i].scope = fields[j].scope /\ fields[i].name = fields[j].name => i = j
        /\ \A i \in DOMAIN fields :
               /\ DeclarationsOf(fields[i]) # {}
               /\ LET n == CHOOSE n \in DeclarationsOf(fields[i]) :
                               \A m \in DeclarationsOf(fields[i]) : n <= m
                  IN  fields[i].resultType = getTypeOf(FileTreeEvents(body)[n].s.type)

\* C34: a declaration with T.let of an instance or class variable that its
\* scope has already changes no symbol and no type; it begins no error if
\* the declared type is equivalent to the type the variable has, and one
\* DuplicateVariableDeclaration error otherwise; after any sequence of
\* declarations the type of a variable is the type of its first declaration
C34_Redeclaration ==
    /\ [][Redeclares]_vars
    /\ [](TypeOfFirstDeclaration)

\* x was declared three times, as Integer, as String and as Integer again:
\* one field, of type Integer, and one DuplicateVariableDeclaration error,
\* at the second declaration
C34_Witness ==
    /\ AtCall("resolveSigs")
    /\ sw.epos = Len(FileTreeEvents(body))
    /\ Len(fields) = 1
    /\ fields[1].resultType = ClassType("Integer")
    /\ DeclarationsOf(fields[1]) = {3, 4, 5}
    /\ getTypeOf(FileTreeEvents(body)[4].s.type) = ClassType("String")
    /\ \E i \in DOMAIN errors :
          /\ DuplicateDeclarations(errors) = {i}
          /\ errors[i].loc = statLoc(31)

(***************************************************************************)
(* C39: the stack nestedBlockCounts                                        *)
(***************************************************************************)
\* the walk is about to enter a node or to handle an assignment
AtNode ==
    /\ AtCall("resolveSigs")
    /\ AtEvent
    /\ NextEvent.ev \in {"preClassDef", "preMethodDef", "preBlock", "postAssign"}

\* the whole tree has been walked
TreeWalked ==
    /\ AtCall("resolveSigs")
    /\ sw.mode = "walk"
    /\ sw.epos = Len(FileTreeEvents(body))

\* C39: at every node of the signatures walk the top of nestedBlockCounts is
\* the number of Block nodes around the node inside its innermost ClassDef
\* or MethodDef, so that a declaration is at top level (the top is 0)
\* exactly when no block encloses it, also after a nested class definition;
\* after the whole tree the stack is the single entry it was constructed with
C39_BlockCounts ==
    /\ AtNode => back(sw.nestedBlockCounts) = NextEvent.blocks
    /\ TreeWalked => sw.nestedBlockCounts = NewSignaturesWalk.nestedBlockCounts

\* the top of the stack counts the blocks around every node that comes
\* before the end of the first ClassDef the walk leaves
BlockCountsWithoutNestedClass ==
    (AtNode /\ \A n \in 1..sw.epos : FileTreeEvents(body)[n].ev # "postClassDef")
        => back(sw.nestedBlockCounts) = NextEvent.blocks

(***************************************************************************)
(* C35: the classMethods slot                                              *)
(***************************************************************************)
\* the walk is about to process a mixes_in_class_methods send, and does
AtMixesInClassMethods ==
    /\ AtCall("resolveMixesInClassMethods")
    /\ mpos < Len(mixSends)
    /\ mixSends[mpos + 1].selfRecv
    /\ mixSends[mpos + 1].fun = "mixes_in_class_methods"
    /\ mpos' = mpos + 1

\* the owner is a module and not a class
OwnerIsModule(send) == isClass(send.owner) /\ ~isClassClass(send.owner)

\* exactly one argument, bound to a module and not a class, that is not the
\* owner, and the slot is empty or holds that module
ArgumentIsValid(send) ==
    /\ Len(send.args) = 1
    /\ send.args[1].node = "ConstantLit"
    /\ exists(send.args[1].symbol)
    /\ isClass(send.args[1].symbol)
    /\ ~isClassClass(send.args[1].symbol)
    /\ send.args[1].symbol # send.owner
    /\ classMethods[send.owner] \in {NoSymbol, send.args[1].symbol}

\* the step made the argument the classMethods member of the owner
SlotWritten(send) ==
    classMethods' = [classMethods EXCEPT ![send.owner] = send.args[1].symbol]

\* the step began n errors, all InvalidMixinDeclaration at the send
MixinErrors(send, n) ==
    /\ Len(errors') = Len(errors) + n
    /\ SubSeq(errors', 1, Len(errors)) = errors
    /\ \A i \in (Len(errors) + 1)..Len(errors') :
           /\ errors'[i].code = "InvalidMixinDeclaration"
           /\ errors'[i].loc = Loc(3, send.id, send.id + 1)

\* a slot that holds a module keeps it
SlotKept == \A c \in DOMAIN classMethods : exists(classMethods[c]) => classMethods'[c] = classMethods[c]

\* C35 as stated: a mixes_in_class_methods call writes the classMethods slot
\* of the owner if and only if the owner is a module, there is exactly one
\* argument, it is bound to a module, it is not the owner and the slot is
\* empty or holds the same module; otherwise it begins an
\* InvalidMixinDeclaration error and leaves the slot unchanged; a slot once
\* set never changes
C35_SlotWrittenIffValid ==
    /\ [][AtMixesInClassMethods =>
            IF OwnerIsModule(mixSends[mpos + 1]) /\ ArgumentIsValid(mixSends[mpos + 1])
            THEN SlotWritten(mixSends[mpos + 1]) /\ MixinErrors(mixSends[mpos + 1], 0)
            ELSE /\ classMethods' = classMethods
                 /\ \E n \in 1..2 : MixinErrors(mixSends[mpos + 1], n)]_vars
    /\ [][SlotKept]_vars

\* C35 amended: the rule on the owner does not stop the call; a call in a
\* class begins an InvalidMixinDeclaration error and is processed like one
\* in a module: the slot is written if and only if the rules on the
\* argument and the slot hold, and one more error is begun otherwise
C35_SlotWrittenIffArgumentValid ==
    /\ [][AtMixesInClassMethods =>
            /\ IF ArgumentIsValid(mixSends[mpos + 1])
               THEN SlotWritten(mixSends[mpos + 1])
               ELSE classMethods' = classMethods
            /\ MixinErrors(mixSends[mpos + 1],
                           (IF OwnerIsModule(mixSends[mpos + 1]) THEN 0 ELSE 1)
                               + (IF ArgumentIsValid(mixSends[mpos + 1]) THEN 0 ELSE 1))]_vars
    /\ [][SlotKept]_vars

\* two calls in module M: the first made A::M its classMethods, the second
\* named another module, began the one error of the run and left the slot
C35_Witness ==
    /\ AtCall("resolveMixesInClassMethods")
    /\ mpos = 2
    /\ classMethods["M"] = NestedM
    /\ CountErrors(errors, "InvalidMixinDeclaration") = 1
    /\ errors[Len(errors)].code = "InvalidMixinDeclaration"
    /\ errors[Len(errors)].what = "redeclaring"

====
